---- MODULE Spec2Model ----
(***************************************************************************)
(* Model of the runtime SFX mixer of Dotventurer (src/audio/sfx.py): the   *)
(* bus voice lists, the loop index, the per-event cooldowns, the variant   *)
(* cursors, the duck windows and the playback channels, with one action    *)
(* per public operation (play, play_loop, stop_loop, duck, update) and one *)
(* for the audio device finishing a one-shot sound.  The event catalog     *)
(* (src/audio/catalog.py), the recipe library (src/audio/recipes.py), the  *)
(* renderer's normalisation (src/audio/renderer.py) and the pan law are    *)
(* modelled beside it, each explored by a specification of its own.        *)
(*                                                                         *)
(* Times are integers in milliseconds (the code keeps float seconds).      *)
(* A voice's (left, right) pair is kept symbolically in the field vol as   *)
(* the total gain in dB and the normalised pan position.  The diagnostic   *)
(* ring _last_events (sfx.py:385-388) is read by get_debug_snapshot only   *)
(* and is not part of the modelled state.                                  *)
(***************************************************************************)
EXTENDS Integers, Sequences, FiniteSets, TLC

VARIABLES
    enable_audio,     \* SFX.enable_audio, fixed by the constructor
    voices,           \* SFX._voices: bus -> list of Voice
    loops,            \* SFX._loops: event -> id of its loop Voice
    cooldowns,        \* SFX._cooldowns: event -> remaining ms
    variant_indices,  \* SFX._variant_indices: event -> cursor
    ducking,          \* SFX._ducking: bus -> list of DuckWindow
    duck_gain,        \* SFX._duck_gain: bus -> dB
    spec_loop,        \* EventSpec.loop of the catalog entries
    channels,         \* pygame.mixer channels: "idle" | "oneshot" | "loop"
    n_created,        \* number of Voice objects constructed so far
    n_calls,          \* number of play, play_loop, stop_loop and duck calls so far
    n_updates,        \* number of update calls so far (in a long run: up to LongClock)
    budget,           \* which budget of calls this run is explored with
    last,             \* the last call, its return value and whether it raised
    grant_age,        \* history: event -> ms passed to update since its last granted
                      \* one-shot, kept while that is less than the event's cooldown
    duck_log,         \* history: bus -> duck calls not yet expired by elapsed time
    catalog_source,   \* the catalog file: event -> raw entry
    catalog,          \* the SFXCatalog object: status, _specs, _variant_indices
    cat_calls,        \* history: name -> number of next_recipe_id calls made with it
    recipe_source,    \* the recipe file: recipe id -> raw recipe
    recipes,          \* the SFXRecipes object: status, _recipes
    result,           \* the last lookup call and what it returned or raised
    args,             \* the arguments a pure function is applied to
    out,              \* <<>>, or <<v>> with v what that function returned
    manager,          \* the SoundManager object and the pygame mixer it drives
    player,           \* the Player object: pos, vel and what its last update did
    twin              \* a second mixer, given the same calls at other moments

\* the variables of the mixer
mixer_vars == <<enable_audio, voices, loops, cooldowns, variant_indices, ducking,
                duck_gain, spec_loop, channels, n_created, n_calls, n_updates,
                budget, last, grant_age, duck_log>>

\* the variables of the catalog, the recipe library and the pure functions
data_vars == <<catalog_source, catalog, cat_calls, recipe_source, recipes, result,
               args, out>>

\* the variables of the objects beside the mixer: the game objects outside the
\* audio package, and the second mixer
game_vars == <<manager, player, twin>>

vars == <<mixer_vars, data_vars, game_vars>>

\* The state of the mixer object itself (everything the claims call "mixer state").
mixer == <<voices, loops, cooldowns, variant_indices, ducking, duck_gain,
           spec_loop, channels>>

-----------------------------------------------------------------------------
(* Bounds of the exploration *)

\* A run is explored either wide (any mix of calls, up to WideCalls of them) or
\* long (up to LongCalls calls other than update, and any number of updates, so
\* that a one-shot voice runs to its end).
WideCalls == 3        \* calls in a wide run
LongCalls == 1        \* play, play_loop, stop_loop and duck calls in a long run
LongClock == 2        \* updates after which the clock of a long run stands still
LiveCalls == 2        \* play, play_loop, stop_loop and duck calls in a run without end

Budgets == {"wide", "long"}

\* whether the run may still take a play, play_loop, stop_loop or duck call
MayRequest ==
    IF budget = "wide" THEN n_calls + n_updates < WideCalls
    ELSE IF budget = "live" THEN n_calls < LiveCalls
    ELSE n_calls < LongCalls

\* whether the run may still take an update call
MayUpdate == budget = "wide" => n_calls + n_updates < WideCalls

-----------------------------------------------------------------------------
(* Buses (sfx.py:60-65) *)

Buses == {"sfx", "music"}

SfxCap == 2
MusicCap == 2

BusCap(b) == IF b = "sfx" THEN SfxCap ELSE MusicCap

BusBaseGainDb(b) == IF b = "sfx" THEN -8 ELSE -12

\* total_channels = sum(bus.cap ...), handed to pygame.mixer.set_num_channels
NumChannels == SfxCap + MusicCap

Channels == 1..NumChannels

NoChannel == 0

-----------------------------------------------------------------------------
(* The catalog the mixer is constructed with *)

Events == {"low", "burst", "hum"}

EventBus(e) == IF e = "hum" THEN "music" ELSE "sfx"

EventPriority(e) == CASE e = "low" -> 10 [] e = "burst" -> 20 [] OTHER -> 5

EventCooldownMs(e) == CASE e = "low" -> 0 [] e = "burst" -> 100 [] OTHER -> 50

EventPan(e) == e = "hum"

EventBaseGain(e) == 0

EventLoopAtLoad(e) == e = "hum"

\* Catalog.get(event): the catalog's own entry, whose loop field play_loop assigns
CatalogGet(e) ==
    [name |-> e, bus |-> EventBus(e), loop |-> spec_loop[e],
     priority |-> EventPriority(e), cooldown_ms |-> EventCooldownMs(e),
     pan |-> EventPan(e), base_gain |-> EventBaseGain(e)]

\* Catalog.get(event) on an event that is in no entry fails with UnknownEvent
CatalogKnows(e) == e \in Events

\* _resolve_variants: no asset on disk, so the three procedural fallbacks
NumVariants == 3

-----------------------------------------------------------------------------
(* Inputs *)

ScreenWidth == 2

\* pos: <<>> is None, <<x>> a horizontal position
PosChoices == {<<>>, <<3>>}

DtChoices == {50, 100}

\* duck calls: <<bus, gain_db, ms>>
DuckChoices ==
    {<<"sfx", -6, 100>>, <<"SFX", -12, 50>>, <<"music", -6, 50>>, <<"voice", -6, 50>>}

-----------------------------------------------------------------------------
(* Voice (sfx.py:39-49) *)

VirtualTimeMs == 400
CullStepMs == 16
Infinity == 1000000

\* the fallback sound generated for an event without assets lasts 160 ms
RenderedDurationMs == 160

IsBusy(ch, c) == ch[c] # "idle"

Min(a, b) == IF a < b THEN a ELSE b
Max(a, b) == IF a > b THEN a ELSE b

SeqToSet(s) == {s[i] : i \in 1..Len(s)}

AllVoices == UNION {SeqToSet(voices[b]) : b \in Buses}

\* dataclass equality of two Voice objects: every declared field
VoiceEq(a, b) ==
    /\ a.event = b.event /\ a.bus = b.bus /\ a.priority = b.priority
    /\ a.start_time = b.start_time /\ a.loop = b.loop /\ a.vol = b.vol
    /\ a.channel = b.channel /\ a.virtual_time = b.virtual_time

-----------------------------------------------------------------------------
(* Cooldowns (sfx.py:188-204) *)

\* dict.get(key, default)
DictGet(d, k, default) == IF k \in DOMAIN d THEN d[k] ELSE default

DictSet(d, k, v) == [x \in DOMAIN d \cup {k} |-> IF x = k THEN v ELSE d[x]]

DictDel(d, ks) == [x \in DOMAIN d \ ks |-> d[x]]

CooldownReady(cd, spec) == DictGet(cd, spec.name, 0) <= 0

ArmCooldown(cd, spec) == DictSet(cd, spec.name, Max(0, spec.cooldown_ms))

AdvanceCooldowns(cd, dt) ==
    LET expired == {e \in DOMAIN cd : cd[e] - dt <= 0}
    IN  [e \in DOMAIN cd \ expired |-> cd[e] - dt]

-----------------------------------------------------------------------------
(* Ducking (sfx.py:156-163, 207-222) *)

SeqMin(s) == CHOOSE m \in SeqToSet(s) : \A x \in SeqToSet(s) : m <= x

WindowGains(ws) == [i \in 1..Len(ws) |-> ws[i].gain_db]

RecalculateDuck(ws) == IF ws = <<>> THEN 0 ELSE SeqMin(WindowGains(ws))

\* a window kept through the update that brings its remaining time to zero
WindowActive_inclusive(w) == w.remaining >= 0

WindowActive(w) == w.remaining > 0

AdvanceWindows(ws, dt) ==
    SelectSeq([i \in 1..Len(ws) |-> [ws[i] EXCEPT !.remaining = @ - dt]], WindowActive)

\* bus.lower() on the names the callers pass
Lower(b) == CASE b = "SFX" -> "sfx" [] b = "Music" -> "music" [] OTHER -> b

-----------------------------------------------------------------------------
(* Voice creation (sfx.py:225-270, 324-358) *)

NextVariantIndex(vi, e, total) == DictSet(vi, e, (DictGet(vi, e, 0) + 1) % total)

Clamp(x, lo, hi) == Max(lo, Min(hi, x))

\* normalised = max(-1, min(1, (x / width) * 2 - 1)), times width
PanNorm_unclamped(x, width) == 2 * x - width

PanNorm(x, width) == Clamp(2 * x - width, -width, width)

\* the pan factors of _compute_volumes as their squares over a common
\* denominator: left = sqrt((1 - normalised) / 2), right = sqrt((1 + normalised) / 2);
\* both are 1 when the width is not positive.  The common linear gain multiplies
\* both and is left out.
PanGains(x, width) ==
    IF width <= 0 THEN [left_sq |-> 1, right_sq |-> 1, den |-> 1]
    ELSE [left_sq |-> width - PanNorm(x, width),
          right_sq |-> width + PanNorm(x, width),
          den |-> 2 * width]

\* (left, right) as the total gain in dB and the pan position scaled by the width
ComputeVolumes(spec, pos, dg) ==
    LET bus == IF spec.bus \in Buses THEN spec.bus ELSE "sfx"
        total_db == BusBaseGainDb(bus) + spec.base_gain + dg[bus]
    IN  IF ~spec.pan \/ pos = <<>> \/ ScreenWidth <= 0
        THEN [db |-> total_db, panned |-> FALSE, norm |-> 0]
        ELSE [db |-> total_db, panned |-> TRUE,
              norm |-> PanNorm(pos[1], ScreenWidth)]

\* pygame.mixer.find_channel(): the first channel that is not busy, or None
FindChannel(ch) ==
    IF \E c \in Channels : ~IsBusy(ch, c)
    THEN CHOOSE c \in Channels : ~IsBusy(ch, c) /\ \A d \in Channels : d < c => IsBusy(ch, d)
    ELSE NoChannel

\* a channel taken whether or not audio is enabled
PrepareChannel_always(ch, loop) ==
    LET c == FindChannel(ch)
    IN  [channel |-> c,
         channels |-> IF c = NoChannel THEN ch
                      ELSE [ch EXCEPT ![c] = IF loop THEN "loop" ELSE "oneshot"]]

\* _prepare_channel: the channel the new sound plays on and the channels after it
PrepareChannel(ch, loop) ==
    LET c == IF enable_audio THEN FindChannel(ch) ELSE NoChannel
    IN  [channel |-> c,
         channels |-> IF c = NoChannel THEN ch
                      ELSE [ch EXCEPT ![c] = IF loop THEN "loop" ELSE "oneshot"]]

\* time.time(), read at the resolution of one frame: the calls made between two
\* updates read the same time, later ones a greater time (or, late in a long
\* run, the same time again: a clock never runs backwards)
Now == n_updates

\* _create_voice run on the mixer state m
CreateVoice(m, spec, pos, loop) ==
    LET pc == PrepareChannel(m.channels, loop)
    IN  [voice |-> [id |-> n_created + 1,
                    event |-> spec.name,
                    bus |-> IF spec.bus \in Buses THEN spec.bus ELSE "sfx",
                    priority |-> spec.priority,
                    start_time |-> Now,
                    loop |-> loop,
                    vol |-> ComputeVolumes(spec, pos, m.duck_gain),
                    channel |-> pc.channel,
                    virtual_time |-> VirtualTimeMs,
                    age |-> 0],
         m |-> [m EXCEPT !.variant_indices = NextVariantIndex(@, spec.name, NumVariants),
                         !.channels = pc.channels]]

-----------------------------------------------------------------------------
(* Admission and stealing (sfx.py:273-298) *)

KeyLess(a, b) ==
    \/ a.priority < b.priority
    \/ a.priority = b.priority /\ a.start_time < b.start_time

\* insert v before the elements of an equal key: a sort that is not stable
RECURSIVE InsertByKey_unstable(_, _)
InsertByKey_unstable(v, s) ==
    IF s = <<>> THEN <<v>>
    ELSE IF ~KeyLess(Head(s), v) THEN <<v>> \o s
    ELSE <<Head(s)>> \o InsertByKey_unstable(v, Tail(s))

\* insert v behind every element whose key is not greater: a stable sort
RECURSIVE InsertByKey(_, _)
InsertByKey(v, s) ==
    IF s = <<>> THEN <<v>>
    ELSE IF KeyLess(v, Head(s)) THEN <<v>> \o s
    ELSE <<Head(s)>> \o InsertByKey(v, Tail(s))

RECURSIVE SortedByKey(_)
SortedByKey(s) ==
    IF s = <<>> THEN <<>>
    ELSE InsertByKey(s[Len(s)], SortedByKey(SubSeq(s, 1, Len(s) - 1)))

\* a voice stolen only by a strictly higher priority
StealCandidate_strict(candidate, incoming_priority) ==
    candidate.priority < incoming_priority

StealCandidate(candidate, incoming_priority) == candidate.priority <= incoming_priority

\* the first voice of the bus list that may be stolen, the list left unsorted
ChooseVoiceToSteal_unsorted(vs, incoming_priority) ==
    LET hits == {i \in 1..Len(vs) : StealCandidate(vs[i], incoming_priority)}
    IN  IF hits = {} THEN <<>>
        ELSE <<vs[CHOOSE i \in hits : \A j \in hits : i <= j]>>

\* _choose_voice_to_steal: <<victim>>, or <<>> for None
ChooseVoiceToSteal(vs, incoming_priority) ==
    LET ordered == SortedByKey(vs)
        hits == {i \in 1..Len(ordered) : StealCandidate(ordered[i], incoming_priority)}
    IN  IF hits = {} THEN <<>>
        ELSE <<ordered[CHOOSE i \in hits : \A j \in hits : i <= j]>>

\* list.remove(voice): drops the first element equal to voice
RemoveFirst(s, v) ==
    LET hits == {i \in 1..Len(s) : VoiceEq(s[i], v)}
        i == CHOOSE k \in hits : \A j \in hits : k <= j
    IN  IF hits = {} THEN s ELSE SubSeq(s, 1, i - 1) \o SubSeq(s, i + 1, Len(s))

\* a voice removed without its channel being stopped
RemoveVoice_no_stop(m, v) ==
    [m EXCEPT
        !.voices = [@ EXCEPT ![v.bus] = RemoveFirst(@, v)],
        !.loops = IF v.event \in DOMAIN @ /\ @[v.event] = v.id
                  THEN DictDel(@, {v.event}) ELSE @]

\* a voice removed from its bus but left in the loop index
RemoveVoice_keeps_index(m, v) ==
    [m EXCEPT
        !.voices = [@ EXCEPT ![v.bus] = RemoveFirst(@, v)],
        !.channels = IF v.channel # NoChannel /\ enable_audio
                     THEN [@ EXCEPT ![v.channel] = "idle"] ELSE @]

\* _remove_voice on the mixer state m
RemoveVoice(m, v) ==
    [m EXCEPT
        !.voices = [@ EXCEPT ![v.bus] = RemoveFirst(@, v)],
        !.channels = IF v.channel # NoChannel /\ enable_audio
                     THEN [@ EXCEPT ![v.channel] = "idle"] ELSE @,
        !.loops = IF v.event \in DOMAIN @ /\ @[v.event] = v.id
                  THEN DictDel(@, {v.event}) ELSE @]

\* a bus taken to be full only once it is over its cap
BusFull_off_by_one(vs, b) == Len(vs) > BusCap(b)

BusFull(vs, b) == Len(vs) >= BusCap(b)

\* _register_voice: [ok, m]
RegisterVoice(m, v) ==
    LET vs == m.voices[v.bus]
        victim == ChooseVoiceToSteal(vs, v.priority)
    IN  IF BusFull(vs, v.bus)
        THEN IF victim = <<>>
             THEN [ok |-> FALSE, m |-> m]
             ELSE LET m2 == RemoveVoice(m, victim[1])
                  IN  [ok |-> TRUE,
                       m |-> [m2 EXCEPT !.voices = [@ EXCEPT ![v.bus] = Append(@, v)]]]
        ELSE [ok |-> TRUE, m |-> [m EXCEPT !.voices = [@ EXCEPT ![v.bus] = Append(@, v)]]]

-----------------------------------------------------------------------------
(* The event catalog (catalog.py) *)

\* A raw entry of the catalog file: each key is <<>> when absent and <<v>> when
\* present.  Gains are in tenths.  The keys loop, cooldown_ms, pan, priority and
\* pitch_jitter_semitones are converted without a check and are left out, and so
\* is vol_jitter, whose one check (not negative) is like that of base_gain.
AllowedBuses == {"ui", "sfx", "loops", "music"}

DefaultBaseGain == 9
MaxBaseGain == 10

RawBusChoices == {<<>>, <<"Music">>, <<"voice">>}
RawGainChoices == {<<>>, <<-1>>, <<10>>, <<11>>}
RawRecipeChoices == {<<>>, <<"">>, <<"r1">>}
RawVariantsChoices == {<<>>, <<<<>>>>, <<<<"r1", "r2">>>>}

RawEntries ==
    [bus : RawBusChoices, base_gain : RawGainChoices,
     recipe : RawRecipeChoices, variants : RawVariantsChoices]

\* an entry with three variants and nothing else
MultiEntry == [bus |-> <<>>, base_gain |-> <<>>, recipe |-> <<>>,
               variants |-> <<<<"a", "b", "c">>>>]

\* the catalog files: the entry "multi" and one entry "probe" of any shape
CatalogSources ==
    {[e \in {"probe", "multi"} |-> IF e = "probe" THEN raw ELSE MultiEntry] :
        raw \in RawEntries}

\* raw.get(key, default)
RawGet(field, default) == IF field = <<>> THEN default ELSE field[1]

\* the truth value Python gives raw.get("recipe") and raw.get("variants")
RecipeTruthy(recipe) == recipe # <<>> /\ recipe[1] # ""
VariantsTruthy(variants) == variants # <<>> /\ variants[1] # <<>>

\* _extract_recipes: [raised, ids]
ExtractRecipes(raw) ==
    IF RecipeTruthy(raw.recipe) /\ VariantsTruthy(raw.variants)
    THEN [raised |-> TRUE, ids |-> <<>>]
    ELSE IF raw.variants # <<>>
    THEN IF raw.variants[1] = <<>>
         THEN [raised |-> TRUE, ids |-> <<>>]
         ELSE [raised |-> FALSE, ids |-> raw.variants[1]]
    ELSE IF raw.recipe = <<>>
    THEN [raised |-> FALSE, ids |-> <<>>]
    ELSE [raised |-> FALSE, ids |-> <<raw.recipe[1]>>]

\* _normalize_event: [raised, spec]
NormalizeEvent(name, raw) ==
    LET bus == Lower(RawGet(raw.bus, "sfx"))
        base_gain == RawGet(raw.base_gain, DefaultBaseGain)
        ex == ExtractRecipes(raw)
        spec == [name |-> name, bus |-> bus, base_gain |-> base_gain,
                 recipe_ids |-> ex.ids]
    IN  IF bus \notin AllowedBuses THEN [raised |-> TRUE, spec |-> <<>>]
    ELSE IF ~(0 <= base_gain /\ base_gain <= MaxBaseGain) THEN [raised |-> TRUE, spec |-> <<>>]
    ELSE IF ex.raised THEN [raised |-> TRUE, spec |-> <<>>]
    ELSE IF ex.ids = <<>> THEN [raised |-> TRUE, spec |-> <<>>]
    ELSE [raised |-> FALSE, spec |-> <<spec>>]

NoCatalog == [status |-> "none", specs |-> <<>>, variant_indices |-> <<>>]

\* SFXCatalog(path): the object, or status "error" when _load raised CatalogError
LoadCatalog(source) ==
    IF \E e \in DOMAIN source : NormalizeEvent(e, source[e]).raised
    THEN [NoCatalog EXCEPT !.status = "error"]
    ELSE [status |-> "ok",
          specs |-> [e \in DOMAIN source |-> NormalizeEvent(e, source[e]).spec[1]],
          variant_indices |-> [e \in DOMAIN source |-> 0]]

\* get_spec: [raised, spec]
GetSpec(cat, event) ==
    IF event \notin DOMAIN cat.specs THEN [raised |-> TRUE, spec |-> <<>>]
    ELSE [raised |-> FALSE, spec |-> <<cat.specs[event]>>]

\* a cursor that is read and never moved
NextRecipeId_stuck(cat, event) ==
    IF GetSpec(cat, event).raised THEN [raised |-> TRUE, id |-> <<>>, catalog |-> cat]
    ELSE [raised |-> FALSE,
          id |-> <<cat.specs[event].recipe_ids[cat.variant_indices[event] + 1]>>,
          catalog |-> cat]

\* next_recipe_id: [raised, id, catalog]
NextRecipeId(cat, event) ==
    LET gs == GetSpec(cat, event)
        ids == gs.spec[1].recipe_ids
        index == cat.variant_indices[event]
    IN  IF gs.raised THEN [raised |-> TRUE, id |-> <<>>, catalog |-> cat]
        ELSE IF Len(ids) = 1 THEN [raised |-> FALSE, id |-> <<ids[1]>>, catalog |-> cat]
        ELSE [raised |-> FALSE, id |-> <<ids[index + 1]>>,
              catalog |-> [cat EXCEPT !.variant_indices[event] = (index + 1) % Len(ids)]]

-----------------------------------------------------------------------------
(* The recipe library (recipes.py) *)

\* A raw layer and a raw recipe of the recipe file: each key is <<>> when absent
\* and <<v>> when present.  amp and sustain are in tenths.  The keys wave, lp_hz,
\* pitch_glide, decay_ms, release_ms, loop, loop_length_ms and headroom_db are
\* left out: they are checked like a key that is kept, or not checked at all.
DefaultDurationMs == 500
DefaultAmp == 10
DefaultAttackMs == 8
DefaultSustain == 6
MaxSustain == 10

LayerTypes == {"osc", "noise"}

GoodLayer ==
    [type |-> <<"osc">>, freq_hz |-> <<440>>, amp |-> <<5>>, attack_ms |-> <<>>,
     sustain |-> <<>>, start_ms |-> <<>>]

LayerChoices ==
    {GoodLayer,
     [GoodLayer EXCEPT !.type = <<>>],
     [GoodLayer EXCEPT !.type = <<"pad">>],
     [GoodLayer EXCEPT !.freq_hz = <<>>],
     [GoodLayer EXCEPT !.type = <<"noise">>, !.freq_hz = <<>>],
     [GoodLayer EXCEPT !.freq_hz = <<-440>>],
     [GoodLayer EXCEPT !.amp = <<>>],
     [GoodLayer EXCEPT !.amp = <<0>>],
     [GoodLayer EXCEPT !.amp = <<11>>],
     [GoodLayer EXCEPT !.attack_ms = <<-1>>],
     [GoodLayer EXCEPT !.sustain = <<-1>>],
     [GoodLayer EXCEPT !.sustain = <<10>>],
     [GoodLayer EXCEPT !.sustain = <<11>>],
     [GoodLayer EXCEPT !.start_ms = <<-1>>],
     [GoodLayer EXCEPT !.start_ms = <<3>>]}

\* the "layers" key: absent, an empty list, one layer, or a good layer and another
RawLayersChoices ==
    {<<>>, <<<<>>>>} \cup {<<<<l>>>> : l \in LayerChoices}
                     \cup {<<<<GoodLayer, l>>>> : l \in LayerChoices}

RecipeIds == {"A", "B"}

RawExtendsChoices == {<<>>} \cup {<<id>> : id \in RecipeIds}
RawDurationChoices == {<<>>, <<0>>, <<-5>>, <<200>>}

RawRecipes ==
    [extends : RawExtendsChoices, duration_ms : RawDurationChoices,
     layers : RawLayersChoices]

\* the second recipe of a file: with its own layers or without
RawRecipesB ==
    [extends : RawExtendsChoices, duration_ms : {<<>>, <<200>>},
     layers : {<<>>, <<<<GoodLayer>>>>}]

\* the recipe files: recipe "A" of any shape and recipe "B"
RecipeSources ==
    {[id \in RecipeIds |-> IF id = "A" THEN ra ELSE rb] :
        ra \in RawRecipes, rb \in RawRecipesB}

\* _normalize_env and _normalize_randomize, on the keys kept: [raised, env, randomize]
NormalizeEnv(payload) ==
    LET attack_ms == RawGet(payload.attack_ms, DefaultAttackMs)
        sustain == RawGet(payload.sustain, DefaultSustain)
    IN  IF attack_ms < 0 THEN [raised |-> TRUE, env |-> <<>>]
        ELSE IF sustain < 0 \/ sustain > MaxSustain THEN [raised |-> TRUE, env |-> <<>>]
        ELSE [raised |-> FALSE, env |-> <<[attack_ms |-> attack_ms, sustain |-> sustain]>>]

NormalizeRandomize(payload) ==
    LET start == RawGet(payload.start_ms, 0)
    IN  IF start < 0 THEN [raised |-> TRUE, randomize |-> <<>>]
        ELSE [raised |-> FALSE, randomize |-> <<[start_ms |-> start]>>]

\* _normalize_layer: [raised, layer]
NormalizeLayer(payload) ==
    LET layer_type == RawGet(payload.type, "osc")
        amp == RawGet(payload.amp, DefaultAmp)
        env == NormalizeEnv(payload)
        randomize == NormalizeRandomize(payload)
        bad == [raised |-> TRUE, layer |-> <<>>]
    IN  IF layer_type \notin LayerTypes THEN bad
        ELSE IF layer_type = "osc" /\ payload.freq_hz = <<>> THEN bad
        ELSE IF amp <= 0 THEN bad
        ELSE IF env.raised THEN bad
        ELSE IF randomize.raised THEN bad
        ELSE [raised |-> FALSE,
              layer |-> <<[layer_type |-> layer_type, freq_hz |-> payload.freq_hz,
                           amp |-> amp, env |-> env.env[1],
                           randomize |-> randomize.randomize[1]]>>]

\* _normalize_recipe: [raised, spec]; the key "extends" is not read
NormalizeRecipe(recipe_id, payload) ==
    LET duration_ms == RawGet(payload.duration_ms, DefaultDurationMs)
        layers_raw == RawGet(payload.layers, <<>>)
        layers == [i \in 1..Len(layers_raw) |-> NormalizeLayer(layers_raw[i])]
        bad == [raised |-> TRUE, spec |-> <<>>]
    IN  IF duration_ms <= 0 THEN bad
        ELSE IF layers_raw = <<>> THEN bad
        ELSE IF \E i \in 1..Len(layers) : layers[i].raised THEN bad
        ELSE [raised |-> FALSE,
              spec |-> <<[recipe_id |-> recipe_id, duration_ms |-> duration_ms,
                          layers |-> [i \in 1..Len(layers) |-> layers[i].layer[1]],
                          has_randomization |->
                              \E i \in 1..Len(layers) :
                                  layers[i].layer[1].randomize.start_ms > 0]>>]

NoRecipes == [status |-> "none", recipes |-> <<>>]

\* SFXRecipes(path): the object, or status "error" when _load raised RecipeError
LoadRecipes(source) ==
    IF \E id \in DOMAIN source : NormalizeRecipe(id, source[id]).raised
    THEN [NoRecipes EXCEPT !.status = "error"]
    ELSE [status |-> "ok",
          recipes |-> [id \in DOMAIN source |-> NormalizeRecipe(id, source[id]).spec[1]]]

\* a lookup that answers an unknown id with nothing instead of an error
RecipesGet_lenient(lib, recipe_id) ==
    IF recipe_id \notin DOMAIN lib.recipes THEN [raised |-> FALSE, spec |-> <<>>]
    ELSE [raised |-> FALSE, spec |-> <<lib.recipes[recipe_id]>>]

\* get: [raised, spec]
RecipesGet(lib, recipe_id) ==
    IF recipe_id \notin DOMAIN lib.recipes THEN [raised |-> TRUE, spec |-> <<>>]
    ELSE [raised |-> FALSE, spec |-> <<lib.recipes[recipe_id]>>]

-----------------------------------------------------------------------------
(* The renderer's mix and normalisation (renderer.py:49-65) *)

\* A buffer is a sequence of integer samples.  The normalised output is kept
\* exactly: when scaled, the sample i of the result is target * data[i] / peak,
\* with target = db_to_linear(headroom_db) > 0; when not scaled it is data[i].
Abs(x) == IF x < 0 THEN -x ELSE x

\* mix[: n] += layer_buffer, for every layer
RECURSIVE SumBuffers(_, _)
SumBuffers(layers, n) ==
    IF layers = <<>> THEN [i \in 1..n |-> 0]
    ELSE LET rest == SumBuffers(Tail(layers), n)
         IN  [i \in 1..n |-> Head(layers)[i] + rest[i]]

\* the largest sample instead of the largest magnitude
PeakAbs_signed(mix) ==
    CHOOSE p \in SeqToSet(mix) : \A i \in 1..Len(mix) : mix[i] <= p

\* np.max(np.abs(mix))
PeakAbs(mix) ==
    CHOOSE p \in {Abs(mix[i]) : i \in 1..Len(mix)} : \A i \in 1..Len(mix) : Abs(mix[i]) <= p

\* render, from the summed layers on: [scaled, peak, left, right]
Render(layers, n, amp_scale) ==
    LET mix == SumBuffers(layers, n)
        peak == PeakAbs(mix)
        data == [i \in 1..n |-> mix[i] * amp_scale]
    IN  [scaled |-> peak > 0, peak |-> peak, left |-> data, right |-> data]

-----------------------------------------------------------------------------
(* The public operations (sfx.py:96-171) *)

\* the mixer object's fields, as one value
Cur ==
    [voices |-> voices, loops |-> loops, cooldowns |-> cooldowns,
     variant_indices |-> variant_indices, ducking |-> ducking,
     duck_gain |-> duck_gain, spec_loop |-> spec_loop, channels |-> channels]

NoVoice == 0

\* existing.left/right/priority/virtual_time = ... on the loop voice with this id
RefreshVoice(vs, id, fresh) ==
    [b \in Buses |->
        [i \in 1..Len(vs[b]) |->
            IF vs[b][i].id = id
            THEN [vs[b][i] EXCEPT !.vol = fresh.vol, !.priority = fresh.priority,
                                  !.virtual_time = Infinity]
            ELSE vs[b][i]]]

\* voice.virtual_time = inf on the voice just appended to its bus
MarkLoop(vs, v) ==
    [vs EXCEPT ![v.bus] =
        [i \in 1..Len(@) |-> IF @[i].id = v.id THEN [@[i] EXCEPT !.virtual_time = Infinity]
                             ELSE @[i]]]

\* the call ended in an error before it touched the mixer (ret has no meaning)
Raised(m) == [ret |-> FALSE, created |-> FALSE, granted |-> FALSE, raised |-> TRUE, m |-> m]

\* play_loop: [ret, m, created, granted, raised]
PlayLoopResult(m, e, pos) ==
    LET spec == [CatalogGet(e) EXCEPT !.loop = TRUE]
        m1 == [m EXCEPT !.spec_loop = [@ EXCEPT ![e] = TRUE]]
        existing == DictGet(m.loops, e, NoVoice)
        cv == CreateVoice(m1, spec, pos, TRUE)
        reg == RegisterVoice(cv.m, cv.voice)
    IN  IF ~CatalogKnows(e) THEN Raised(m)
        ELSE IF existing # NoVoice
        THEN [ret |-> TRUE, created |-> TRUE, granted |-> FALSE, raised |-> FALSE,
              m |-> [cv.m EXCEPT !.voices = RefreshVoice(@, existing, cv.voice)]]
        ELSE IF ~reg.ok
        THEN [ret |-> FALSE, created |-> TRUE, granted |-> FALSE, raised |-> FALSE, m |-> reg.m]
        ELSE [ret |-> TRUE, created |-> TRUE, granted |-> FALSE, raised |-> FALSE,
              m |-> [reg.m EXCEPT !.voices = MarkLoop(@, cv.voice),
                                  !.loops = DictSet(@, e, cv.voice.id)]]

\* play that takes the one-shot path whatever the spec's loop field says
PlayResult_no_redirect(m, e, pos) ==
    LET spec == CatalogGet(e)
        cv == CreateVoice(m, spec, pos, FALSE)
        reg == RegisterVoice(cv.m, cv.voice)
    IN  IF ~CatalogKnows(e) THEN Raised(m)
        ELSE IF ~CooldownReady(m.cooldowns, spec)
        THEN [ret |-> FALSE, created |-> FALSE, granted |-> FALSE, raised |-> FALSE, m |-> m]
        ELSE IF ~reg.ok
        THEN [ret |-> FALSE, created |-> TRUE, granted |-> FALSE, raised |-> FALSE, m |-> reg.m]
        ELSE [ret |-> TRUE, created |-> TRUE, granted |-> TRUE, raised |-> FALSE,
              m |-> [reg.m EXCEPT !.cooldowns = ArmCooldown(@, spec)]]

\* play: [ret, m, created, granted, raised]
PlayResult(m, e, pos) ==
    LET spec == CatalogGet(e)
        cv == CreateVoice(m, spec, pos, FALSE)
        reg == RegisterVoice(cv.m, cv.voice)
    IN  IF ~CatalogKnows(e) THEN Raised(m)
        ELSE IF spec.loop THEN PlayLoopResult(m, e, pos)
        ELSE IF ~CooldownReady(m.cooldowns, spec)
        THEN [ret |-> FALSE, created |-> FALSE, granted |-> FALSE, raised |-> FALSE, m |-> m]
        ELSE IF ~reg.ok
        THEN [ret |-> FALSE, created |-> TRUE, granted |-> FALSE, raised |-> FALSE, m |-> reg.m]
        ELSE [ret |-> TRUE, created |-> TRUE, granted |-> TRUE, raised |-> FALSE,
              m |-> [reg.m EXCEPT !.cooldowns = ArmCooldown(@, spec)]]

\* stop_loop: [ret, m]
StopLoopResult(m, e) ==
    LET id == DictGet(m.loops, e, NoVoice)
        v == CHOOSE x \in UNION {SeqToSet(m.voices[b]) : b \in Buses} : x.id = id
        m1 == [m EXCEPT !.loops = DictDel(@, {e})]
    IN  IF id = NoVoice THEN [ret |-> FALSE, m |-> m]
        ELSE [ret |-> TRUE, m |-> RemoveVoice(m1, v)]

\* duck: m (a bus name the mixer does not know leaves it as it is)
DuckResult(m, bus, gain_db, ms) ==
    LET b == Lower(bus)
        ws == Append(m.ducking[b], [gain_db |-> gain_db, remaining |-> Max(0, ms)])
    IN  IF b \notin Buses THEN m
        ELSE [m EXCEPT !.ducking = [@ EXCEPT ![b] = ws],
                       !.duck_gain = [@ EXCEPT ![b] = RecalculateDuck(ws)]]

\* a cull that takes nothing off the virtual time of a voice
CullVoice_never_ends(v, ch) ==
    IF v.loop THEN <<v>>
    ELSE IF v.channel # NoChannel /\ enable_audio /\ IsBusy(ch, v.channel) THEN <<v>>
    ELSE IF v.virtual_time > 0 THEN <<v>> ELSE <<>>

\* a cull that drops the loop voices as well
CullVoice_drops_loops(v, ch) ==
    IF v.channel # NoChannel /\ enable_audio /\ IsBusy(ch, v.channel) /\ ~v.loop THEN <<v>>
    ELSE IF v.virtual_time - CullStepMs > 0 /\ ~v.loop
         THEN <<[v EXCEPT !.virtual_time = @ - CullStepMs]>>
         ELSE <<>>

\* _cull_finished_voices: the fate of one voice, <<>> when it is dropped
CullVoice(v, ch) ==
    IF v.loop THEN <<v>>
    ELSE IF v.channel # NoChannel /\ enable_audio /\ IsBusy(ch, v.channel) THEN <<v>>
    ELSE IF v.virtual_time - CullStepMs > 0
         THEN <<[v EXCEPT !.virtual_time = @ - CullStepMs]>>
         ELSE <<>>

RECURSIVE CullList(_, _)
CullList(vs, ch) ==
    IF vs = <<>> THEN <<>> ELSE CullVoice(Head(vs), ch) \o CullList(Tail(vs), ch)

\* history: the dt passed to update since the voice was granted, up to its duration
Aged(vs, dt) ==
    [i \in 1..Len(vs) |-> [vs[i] EXCEPT !.age = Min(@ + dt, RenderedDurationMs)]]

\* update: m (_refresh_loops re-applies each loop voice's stored left/right)
UpdateResult(m, dt) ==
    LET dk == [b \in Buses |-> AdvanceWindows(m.ducking[b], dt)]
    IN  [m EXCEPT !.cooldowns = AdvanceCooldowns(@, dt),
                  !.ducking = dk,
                  !.duck_gain = [b \in Buses |-> RecalculateDuck(dk[b])],
                  !.voices = [b \in Buses |-> Aged(CullList(@[b], m.channels), dt)]]

Apply(m) ==
    /\ voices' = m.voices
    /\ loops' = m.loops
    /\ cooldowns' = m.cooldowns
    /\ variant_indices' = m.variant_indices
    /\ ducking' = m.ducking
    /\ duck_gain' = m.duck_gain
    /\ spec_loop' = m.spec_loop
    /\ channels' = m.channels

\* the effect of a play or play_loop call with the result r
Called(r) ==
    /\ MayRequest
    /\ Apply(r.m)
    /\ n_created' = IF r.created THEN n_created + 1 ELSE n_created
    /\ n_calls' = n_calls + 1
    /\ UNCHANGED <<enable_audio, n_updates, budget, duck_log>>
    /\ UNCHANGED <<data_vars, game_vars>>

Play(e, pos) ==
    \E r \in {PlayResult(Cur, e, pos)} :
        /\ Called(r)
        /\ grant_age' = IF r.granted /\ EventCooldownMs(e) > 0
                        THEN DictSet(grant_age, e, 0) ELSE grant_age
        /\ last' = [op |-> "play", arg |-> e, ret |-> r.ret, raised |-> r.raised]

PlayLoop(e, pos) ==
    \E r \in {PlayLoopResult(Cur, e, pos)} :
        /\ Called(r)
        /\ UNCHANGED grant_age
        /\ last' = [op |-> "play_loop", arg |-> e, ret |-> r.ret, raised |-> r.raised]

StopLoop(e) ==
    \E r \in {StopLoopResult(Cur, e)} :
        /\ MayRequest
        /\ Apply(r.m)
        /\ n_calls' = n_calls + 1
        /\ last' = [op |-> "stop_loop", arg |-> e, ret |-> r.ret, raised |-> FALSE]
        /\ UNCHANGED <<enable_audio, n_created, n_updates, budget, grant_age, duck_log>>
        /\ UNCHANGED <<data_vars, game_vars>>

Duck(bus, gain_db, ms) ==
    /\ MayRequest
    /\ \E m \in {DuckResult(Cur, bus, gain_db, ms)} : Apply(m)
    /\ n_calls' = n_calls + 1
    /\ duck_log' = IF Lower(bus) \in Buses
                   THEN [duck_log EXCEPT ![Lower(bus)] =
                            Append(@, [gain_db |-> gain_db, ms |-> ms, elapsed |-> 0])]
                   ELSE duck_log
    /\ last' = [op |-> "duck", arg |-> bus, ret |-> FALSE, raised |-> FALSE]
    /\ UNCHANGED <<enable_audio, n_created, n_updates, budget, grant_age>>
    /\ UNCHANGED <<data_vars, game_vars>>

LogAlive(w) == w.elapsed < w.ms

Update(dt) ==
    /\ MayUpdate
    /\ n_updates' = IF budget = "wide" THEN n_updates + 1 ELSE Min(n_updates + 1, LongClock)
    /\ \E m \in {UpdateResult(Cur, dt)} : Apply(m)
    /\ grant_age' = [e \in {x \in DOMAIN grant_age : grant_age[x] + dt < EventCooldownMs(x)}
                        |-> grant_age[e] + dt]
    /\ duck_log' = [b \in Buses |->
                       SelectSeq([i \in 1..Len(duck_log[b]) |->
                                     [duck_log[b][i] EXCEPT !.elapsed = @ + dt]], LogAlive)]
    /\ last' = [op |-> "update", arg |-> "", ret |-> FALSE, raised |-> FALSE]
    /\ UNCHANGED <<enable_audio, n_created, n_calls, budget>>
    /\ UNCHANGED <<data_vars, game_vars>>

\* the audio device reaches the end of a one-shot sound
ChannelFinish(c) ==
    /\ enable_audio
    /\ channels[c] = "oneshot"
    /\ channels' = [channels EXCEPT ![c] = "idle"]
    /\ last' = [op |-> "finish", arg |-> "", ret |-> FALSE, raised |-> FALSE]
    /\ UNCHANGED <<enable_audio, voices, loops, cooldowns, variant_indices, ducking,
                   duck_gain, spec_loop, n_created, n_calls, n_updates, budget,
                   grant_age, duck_log>>
    /\ UNCHANGED <<data_vars, game_vars>>

\* the catalog, the recipe library and the pure functions are not in use
NoResult == [op |-> "none", arg |-> "", raised |-> FALSE, ret |-> <<>>]

\* no SoundManager and no Player has been constructed
NoManager == [status |-> "none"]

NoPlayer == [status |-> "none"]

NoTwin == [status |-> "none"]

GameIdle ==
    /\ manager = NoManager
    /\ player = NoPlayer
    /\ twin = NoTwin

DataIdle ==
    /\ catalog_source = <<>>
    /\ catalog = NoCatalog
    /\ cat_calls = <<>>
    /\ recipe_source = <<>>
    /\ recipes = NoRecipes
    /\ result = NoResult
    /\ args = <<>>
    /\ out = <<>>

Init ==
    /\ enable_audio \in BOOLEAN
    /\ voices = [b \in Buses |-> <<>>]
    /\ loops = <<>>
    /\ cooldowns = <<>>
    /\ variant_indices = <<>>
    /\ ducking = [b \in Buses |-> <<>>]
    /\ duck_gain = [b \in Buses |-> 0]
    /\ spec_loop = [e \in Events |-> EventLoopAtLoad(e)]
    /\ channels = [c \in Channels |-> "idle"]
    /\ n_created = 0
    /\ n_calls = 0
    /\ n_updates = 0
    /\ budget \in Budgets
    /\ last = [op |-> "init", arg |-> "", ret |-> FALSE, raised |-> FALSE]
    /\ grant_age = <<>>
    /\ duck_log = [b \in Buses |-> <<>>]
    /\ DataIdle
    /\ GameIdle

Next ==
    \/ \E e \in Events, pos \in PosChoices : Play(e, pos)
    \/ \E e \in Events, pos \in PosChoices : PlayLoop(e, pos)
    \/ \E e \in Events : StopLoop(e)
    \/ \E d \in DuckChoices : Duck(d[1], d[2], d[3])
    \/ \E dt \in DtChoices : Update(dt)
    \/ \E c \in Channels : ChannelFinish(c)

Spec == Init /\ [][Next]_vars

\* the wide runs alone: any mix of calls, without the long tails of updates
InitWide == Init /\ budget = "wide"

SpecWide == InitWide /\ [][Next]_vars

-----------------------------------------------------------------------------
(* Properties of admission and stealing *)

\* s without its k-th element
WithoutIndex(s, k) == SubSeq(s, 1, k - 1) \o SubSeq(s, k + 1, Len(s))

\* play(e) gets as far as _register_voice: through play_loop for an event whose
\* entry is flagged loop, past the cooldown check otherwise
PlayReachesAdmission(e) ==
    IF spec_loop[e] THEN e \notin DOMAIN loops
    ELSE CooldownReady(cooldowns, CatalogGet(e))

\* play_loop(e) gets as far as _register_voice: there is no loop voice to refresh
LoopReachesAdmission(e) == e \notin DOMAIN loops

\* C1: every bus holds at most its capacity of voices, in every reachable state.
C1_BusWithinCap == \A b \in Buses : Len(voices[b]) <= BusCap(b)

\* a third voice was created for the two-voice sfx bus and took the place of the first
C1_FullAfterSteal ==
    /\ last = [op |-> "play_loop", arg |-> "burst", ret |-> TRUE, raised |-> FALSE]
    /\ Len(voices["sfx"]) = SfxCap
    /\ n_created = SfxCap + 1
    /\ voices["music"] = <<>>
    /\ \A i \in 1..SfxCap : voices["sfx"][i].id > 1

\* the admission rule, for the result r of a request for event e that reaches
\* admission in the current state
AdmissionRule(e, r) ==
    LET b == EventBus(e)
        vs == voices[b]
        full == Len(vs) >= BusCap(b)
        allGreater == \A i \in 1..Len(vs) : vs[i].priority > EventPriority(e)
    IN  /\ ~full => /\ r.ret
                    /\ Len(r.m.voices[b]) = Len(vs) + 1
                    /\ SubSeq(r.m.voices[b], 1, Len(vs)) = vs
                    /\ r.m.voices[b][Len(vs) + 1].event = e
        /\ full => (~r.ret <=> allGreater)
        /\ ~r.ret => r.m.voices = voices

\* C2: a play or play_loop request on a bus below its capacity is admitted
\* whatever its priority; on a full bus it is rejected exactly when every voice
\* of the bus has a priority strictly greater than the incoming one; a rejected
\* request leaves the buses holding exactly the voices they held.
C2_AdmissionRule ==
    \A e \in Events, pos \in PosChoices :
        /\ PlayReachesAdmission(e) => AdmissionRule(e, PlayResult(Cur, e, pos))
        /\ LoopReachesAdmission(e) => AdmissionRule(e, PlayLoopResult(Cur, e, pos))

\* play("low") has just been refused by a full bus of higher-priority voices
C2_RejectedOnFullBus ==
    /\ last = [op |-> "play", arg |-> "low", ret |-> FALSE, raised |-> FALSE]
    /\ Len(voices["sfx"]) = SfxCap
    /\ \A i \in 1..SfxCap : voices["sfx"][i].priority > EventPriority("low")

\* the victim rule, for the result r of a request for event e that reaches
\* admission in the current state
VictimRule(e, r) ==
    LET b == EventBus(e)
        vs == voices[b]
        full == Len(vs) >= BusCap(b)
    IN  /\ (full /\ r.ret) =>
            \E k \in 1..Len(vs) :
                /\ \A j \in 1..Len(vs) : vs[j].priority >= vs[k].priority
                /\ \A j \in 1..(k - 1) : vs[j].priority > vs[k].priority
                /\ vs[k].priority <= EventPriority(e)
                /\ Len(r.m.voices[b]) = Len(vs)
                /\ SubSeq(r.m.voices[b], 1, Len(vs) - 1) = WithoutIndex(vs, k)
                /\ r.m.voices[b][Len(vs)].event = e
                /\ r.m.voices[b][Len(vs)].id \notin {vs[j].id : j \in 1..Len(vs)}
                /\ \A o \in Buses \ {b} : r.m.voices[o] = voices[o]
                /\ vs[k].loop => vs[k].event \notin DOMAIN r.m.loops
                /\ \A x \in DOMAIN loops :
                       loops[x] # vs[k].id => x \in DOMAIN r.m.loops /\ r.m.loops[x] = loops[x]
        /\ (full /\ \E k \in 1..Len(vs) : vs[k].priority = EventPriority(e)) => r.ret

\* C3: a request admitted on a full bus evicts exactly one voice, the one of
\* lowest priority and, among those, the earliest admitted; a voice of a
\* priority equal to the incoming one is evicted too; the evicted voice leaves the
\* bus list and, when it is a loop voice, the loop index.
C3_VictimSelection ==
    \A e \in Events, pos \in PosChoices :
        /\ PlayReachesAdmission(e) => VictimRule(e, PlayResult(Cur, e, pos))
        /\ LoopReachesAdmission(e) => VictimRule(e, PlayLoopResult(Cur, e, pos))

\* three plays of equal priority on the two-voice bus: the first one was evicted
C3_OldestOfEqualsEvicted ==
    /\ last = [op |-> "play", arg |-> "low", ret |-> TRUE, raised |-> FALSE]
    /\ n_created = SfxCap + 1
    /\ Len(voices["sfx"]) = SfxCap
    /\ \A i \in 1..SfxCap : voices["sfx"][i].event = "low" /\ voices["sfx"][i].id = i + 1

-----------------------------------------------------------------------------
(* Properties of the cooldown and of rejected requests *)

\* the bus of e admits a new voice of e's priority in the current state
BusAdmits(e) ==
    \/ Len(voices[EventBus(e)]) < BusCap(EventBus(e))
    \/ \E i \in 1..Len(voices[EventBus(e)]) :
           voices[EventBus(e)][i].priority <= EventPriority(e)

\* C4: for an event e loaded as non-loop with a cooldown c > 0, play(e) returns
\* false and changes no mixer state while the dt passed to update since the last
\* granted play(e) is less than c (so forever, without an update call); once that
\* dt has reached c, play(e) returns true exactly when the bus admits it.
C4_CooldownEnforced ==
    \A e \in Events, pos \in PosChoices :
        (~EventLoopAtLoad(e) /\ EventCooldownMs(e) > 0) =>
            LET r == PlayResult(Cur, e, pos)
            IN  IF e \in DOMAIN grant_age
                THEN ~r.ret /\ r.m = Cur
                ELSE r.ret <=> BusAdmits(e)

\* C5: a play(e) that returns false because admission was refused leaves the
\* mixer state as it was: cooldowns, variant cursors, bus voice lists, loop index
\* and playback channels.
C5_RejectionChangesNothing ==
    \A e \in Events, pos \in PosChoices :
        LET r == PlayResult(Cur, e, pos)
        IN  (PlayReachesAdmission(e) /\ ~r.ret) =>
                /\ r.m.cooldowns = cooldowns
                /\ r.m.variant_indices = variant_indices
                /\ r.m.voices = voices
                /\ r.m.loops = loops
                /\ r.m.channels = channels

-----------------------------------------------------------------------------
(* Properties of the loop operations *)

\* the <<bus, index>> places of the voices of event e in the bus lists vs
VoicesOf(vs, e) == {p \in Buses \X (1..NumChannels) : p[2] <= Len(vs[p[1]]) /\ vs[p[1]][p[2]].event = e}

\* C6: play_loop(e) while a loop voice for e exists returns true, creates no
\* voice (every bus keeps its voice count, the loop index its entry) and changes
\* nothing in the mixer but that voice's pan/gain; there is then exactly one voice
\* for e.
C6_LoopRefreshOnly ==
    \A e \in Events, pos \in PosChoices :
        e \in DOMAIN loops =>
            LET r == PlayLoopResult(Cur, e, pos)
                fresh == ComputeVolumes(CatalogGet(e), pos, duck_gain)
                refreshed == [b \in Buses |->
                                 [i \in 1..Len(voices[b]) |->
                                     IF voices[b][i].id = loops[e]
                                     THEN [voices[b][i] EXCEPT !.vol = fresh]
                                     ELSE voices[b][i]]]
            IN  /\ r.ret
                /\ \A b \in Buses : Len(r.m.voices[b]) = Len(voices[b])
                /\ r.m.loops = loops
                /\ r.m = [Cur EXCEPT !.voices = refreshed]
                /\ Cardinality(VoicesOf(r.m.voices, e)) = 1

\* C7: stop_loop(e) with a loop voice for e takes that voice out of its bus list
\* and out of the loop index, stops its channel and changes nothing else, and a
\* second stop_loop(e) is then a no-op; stop_loop(e) without a loop voice for e
\* returns false and changes no mixer state.
C7_StopLoop ==
    \A e \in Events :
        LET r == StopLoopResult(Cur, e)
        IN  IF e \in DOMAIN loops
            THEN \E b \in Buses : \E k \in 1..Len(voices[b]) :
                    LET v == voices[b][k]
                    IN  /\ v.id = loops[e]
                        /\ r.ret
                        /\ r.m.voices = [voices EXCEPT ![b] = WithoutIndex(@, k)]
                        /\ r.m.loops = [x \in DOMAIN loops \ {e} |-> loops[x]]
                        /\ r.m.channels =
                               IF enable_audio /\ v.channel # NoChannel
                               THEN [channels EXCEPT ![v.channel] = "idle"]
                               ELSE channels
                        /\ r.m.cooldowns = cooldowns
                        /\ r.m.variant_indices = variant_indices
                        /\ r.m.ducking = ducking
                        /\ r.m.duck_gain = duck_gain
                        /\ r.m.spec_loop = spec_loop
                        /\ StopLoopResult(r.m, e) = [ret |-> FALSE, m |-> r.m]
            ELSE r = [ret |-> FALSE, m |-> Cur]

\* stop_loop("hum") has just stopped the loop voice that play_loop started on a channel
C7_LoopStopped ==
    /\ last = [op |-> "stop_loop", arg |-> "hum", ret |-> TRUE, raised |-> FALSE]
    /\ enable_audio
    /\ n_created = 1
    /\ "hum" \notin DOMAIN loops
    /\ voices["music"] = <<>>
    /\ \A c \in Channels : channels[c] = "idle"

-----------------------------------------------------------------------------
(* Properties of ducking *)

\* the minimum gain_db of the duck calls of bus b that have not run their time
LogGain(b) ==
    IF duck_log[b] = <<>> THEN 0
    ELSE CHOOSE g \in {duck_log[b][i].gain_db : i \in 1..Len(duck_log[b])} :
             \A i \in 1..Len(duck_log[b]) : g <= duck_log[b][i].gain_db

\* C8: after every call, the duck gain of a bus is the minimum gain_db over the
\* duck calls on that bus whose duration the dt passed to update since has not
\* reached, and 0 dB when there is none; the windows kept are exactly those
\* calls, each with the time it has left; a duck call changes the duck gain of no
\* other bus.
C8_DuckGain ==
    /\ \A b \in Buses :
        /\ duck_gain[b] = LogGain(b)
        /\ Len(ducking[b]) = Len(duck_log[b])
        /\ \A i \in 1..Len(ducking[b]) :
               /\ ducking[b][i].gain_db = duck_log[b][i].gain_db
               /\ ducking[b][i].remaining = duck_log[b][i].ms - duck_log[b][i].elapsed
    /\ \A d \in DuckChoices : \A o \in Buses \ {Lower(d[1])} :
           DuckResult(Cur, d[1], d[2], d[3]).duck_gain[o] = duck_gain[o]

\* -6 dB for 100 ms and -12 dB for 50 ms on the sfx bus, then an update that ends
\* the second window only: the gain is back to -6 dB
C8_ShortWindowExpired ==
    /\ last.op = "update"
    /\ n_calls = 2
    /\ n_created = 0
    /\ Len(ducking["sfx"]) = 1
    /\ duck_gain["sfx"] = -6
    /\ duck_gain["music"] = 0

-----------------------------------------------------------------------------
(* Properties of the removal of finished voices *)

\* the voice with this id is in no bus list of the mixer state m
Removed(m, id) == \A b \in Buses : \A i \in 1..Len(m.voices[b]) : m.voices[b][i].id # id

\* C9: with audio disabled, update removes a non-loop voice exactly when the dt
\* passed to update since the voice was granted has reached its rendered duration.
C9_CullByElapsedTime ==
    ~enable_audio =>
        \A dt \in DtChoices : \A b \in Buses : \A i \in 1..Len(voices[b]) :
            ~voices[b][i].loop =>
                (Removed(UpdateResult(Cur, dt), voices[b][i].id)
                     <=> voices[b][i].age + dt >= RenderedDurationMs)

\* C10: with audio enabled, the update that finds the channel of a non-loop voice
\* no longer busy removes that voice from its bus.
C10_CullWhenChannelDone ==
    enable_audio =>
        \A dt \in DtChoices : \A b \in Buses : \A i \in 1..Len(voices[b]) :
            (/\ ~voices[b][i].loop
             /\ voices[b][i].channel # NoChannel
             /\ ~IsBusy(channels, voices[b][i].channel))
                => Removed(UpdateResult(Cur, dt), voices[b][i].id)

-----------------------------------------------------------------------------
(* The catalog on its own: a file is loaded, then events are looked up *)

\* the fields of a mixer that is constructed and not yet called
MixerConstructed ==
    /\ voices = [b \in Buses |-> <<>>]
    /\ loops = <<>>
    /\ cooldowns = <<>>
    /\ variant_indices = <<>>
    /\ ducking = [b \in Buses |-> <<>>]
    /\ duck_gain = [b \in Buses |-> 0]
    /\ spec_loop = [e \in Events |-> EventLoopAtLoad(e)]
    /\ channels = [c \in Channels |-> "idle"]
    /\ n_created = 0
    /\ n_calls = 0
    /\ n_updates = 0
    /\ last = [op |-> "init", arg |-> "", ret |-> FALSE, raised |-> FALSE]
    /\ grant_age = <<>>
    /\ duck_log = [b \in Buses |-> <<>>]

\* a mixer without audio that is never called
MixerIdle ==
    /\ enable_audio = FALSE
    /\ budget = "wide"
    /\ MixerConstructed

MaxLookups == 6

\* the names looked up: the two entries of the file and one that is in no file
LookupNames == {"probe", "multi", "ghost"}

RECURSIVE SumOver(_, _)
SumOver(f, S) ==
    IF S = {} THEN 0
    ELSE LET x == CHOOSE y \in S : TRUE IN f[x] + SumOver(f, S \ {x})

MayLookup == catalog.status = "ok" /\ SumOver(cat_calls, LookupNames) < MaxLookups

\* catalog.get_spec(e)
DoGetSpec(e) ==
    LET r == GetSpec(catalog, e)
    IN  /\ catalog.status = "ok"
        /\ result' = [op |-> "get_spec", arg |-> e, raised |-> r.raised, ret |-> r.spec]
        /\ UNCHANGED <<catalog_source, catalog, cat_calls,
                       recipe_source, recipes, args, out, game_vars>>

\* catalog.next_recipe_id(e)
DoNextRecipeId(e) ==
    LET r == NextRecipeId(catalog, e)
    IN  /\ MayLookup
        /\ catalog' = r.catalog
        /\ cat_calls' = [cat_calls EXCEPT ![e] = @ + 1]
        /\ result' = [op |-> "next_recipe_id", arg |-> e, raised |-> r.raised, ret |-> r.id]
        /\ UNCHANGED <<catalog_source, recipe_source, recipes, args, out, game_vars>>

InitCatalog ==
    /\ MixerIdle
    /\ catalog_source \in CatalogSources
    /\ catalog = LoadCatalog(catalog_source)
    /\ cat_calls = [e \in LookupNames |-> 0]
    /\ recipe_source = <<>>
    /\ recipes = NoRecipes
    /\ result = NoResult
    /\ args = <<>>
    /\ out = <<>>
    /\ GameIdle

NextCatalog ==
    \/ \E e \in LookupNames : DoGetSpec(e) /\ UNCHANGED mixer_vars
    \/ \E e \in LookupNames : DoNextRecipeId(e) /\ UNCHANGED mixer_vars

SpecCatalog == InitCatalog /\ [][NextCatalog]_vars

\* C11: with N >= 1 recipe ids, the call number k (from 0) of next_recipe_id(e)
\* returns recipe_ids[k mod N] however calls for other events are interleaved,
\* the cursor stays in 0..N-1, and a call moves no other event's cursor.
C11_RoundRobin ==
    catalog.status = "ok" =>
        /\ \A e \in DOMAIN catalog.specs :
            LET ids == catalog.specs[e].recipe_ids
                N == Len(ids)
                r == NextRecipeId(catalog, e)
            IN  /\ N >= 1
                /\ catalog.variant_indices[e] \in 0..(N - 1)
                /\ ~r.raised
                /\ r.id = <<ids[(cat_calls[e] % N) + 1]>>
                /\ r.catalog.variant_indices[e] \in 0..(N - 1)
                /\ \A o \in DOMAIN catalog.specs \ {e} :
                      r.catalog.variant_indices[o] = catalog.variant_indices[o]
        /\ (result.op = "next_recipe_id" /\ ~result.raised) =>
            LET ids == catalog.specs[result.arg].recipe_ids
            IN  result.ret = <<ids[((cat_calls[result.arg] - 1) % Len(ids)) + 1]>>

\* the fourth call for the three-variant event, made after a call for the other
\* event, is back at the first variant
C11_WrappedAround ==
    /\ result.op = "next_recipe_id"
    /\ result.arg = "multi"
    /\ result.ret = <<"a">>
    /\ cat_calls["multi"] = 4
    /\ cat_calls["probe"] >= 1

-----------------------------------------------------------------------------
(* Properties of the loop redirect *)

\* the mixer state m with a cooldown of ms pending for e
WithCooldown(m, e, ms) == [m EXCEPT !.cooldowns = DictSet(@, e, ms)]

\* C12: for an event whose spec has loop = true, play returns what play_loop
\* returns and leaves the mixer as play_loop leaves it: the cooldown of the event
\* is neither consulted nor armed, and after a call that returned true the loop
\* index holds for the event a loop-flagged voice of its bus, which stop_loop
\* finds and removes.
C12_PlayIsPlayLoop ==
    \A e \in Events, pos \in PosChoices :
        spec_loop[e] =>
            LET r == PlayResult(Cur, e, pos)
                l == PlayLoopResult(Cur, e, pos)
                hot == PlayResult(WithCooldown(Cur, e, 100), e, pos)
                s == StopLoopResult(r.m, e)
            IN  /\ r.ret = l.ret
                /\ r.m = l.m
                /\ r.created = l.created
                /\ r.m.cooldowns = cooldowns
                /\ hot.ret = r.ret
                /\ hot.m = WithCooldown(r.m, e, 100)
                /\ r.ret =>
                    /\ e \in DOMAIN r.m.loops
                    /\ \E b \in Buses : \E k \in 1..Len(r.m.voices[b]) :
                          LET v == r.m.voices[b][k]
                          IN  /\ v.id = r.m.loops[e]
                              /\ v.event = e
                              /\ v.loop
                              /\ v.virtual_time = Infinity
                    /\ s.ret
                    /\ e \notin DOMAIN s.m.loops
                    /\ \A b \in Buses : \A k \in 1..Len(s.m.voices[b]) :
                          s.m.voices[b][k].id # r.m.loops[e]

\* play on an event that play_loop flagged as a loop returned true although the
\* cooldown armed by an earlier one-shot play of it was still pending
C12_RedirectedDuringCooldown ==
    /\ last = [op |-> "play", arg |-> "burst", ret |-> TRUE, raised |-> FALSE]
    /\ spec_loop["burst"]
    /\ "burst" \in DOMAIN loops
    /\ DictGet(cooldowns, "burst", 0) > 0

-----------------------------------------------------------------------------
(* Lookups of names that are in no file, beside a mixer in use *)

UnknownNames == {"ghost"}

\* a catalog file and a recipe file that load
GoodCatalogSource ==
    [e \in {"probe", "multi"} |->
        IF e = "multi" THEN MultiEntry
        ELSE [bus |-> <<>>, base_gain |-> <<>>, recipe |-> <<"r1">>, variants |-> <<>>]]

GoodRecipeSource ==
    [id \in RecipeIds |->
        [extends |-> <<>>, duration_ms |-> <<200>>, layers |-> <<<<GoodLayer>>>>]]

\* recipes.get(id)
DoRecipesGet(id) ==
    LET r == RecipesGet(recipes, id)
    IN  /\ recipes.status = "ok"
        /\ result' = [op |-> "get", arg |-> id, raised |-> r.raised, ret |-> r.spec]
        /\ UNCHANGED <<catalog_source, catalog, cat_calls, recipe_source, recipes, args, out, game_vars>>

\* a call on the catalog or the recipe library, counted like a call on the mixer
Counted ==
    /\ MayRequest
    /\ n_calls' = n_calls + 1
    /\ UNCHANGED <<enable_audio, voices, loops, cooldowns, variant_indices, ducking,
                   duck_gain, spec_loop, channels, n_created, n_updates, budget,
                   last, grant_age, duck_log>>

InitLookup ==
    /\ enable_audio \in BOOLEAN
    /\ budget = "wide"
    /\ MixerConstructed
    /\ catalog_source = GoodCatalogSource
    /\ catalog = LoadCatalog(catalog_source)
    /\ cat_calls = [e \in LookupNames |-> 0]
    /\ recipe_source = GoodRecipeSource
    /\ recipes = LoadRecipes(recipe_source)
    /\ result = NoResult
    /\ args = <<>>
    /\ out = <<>>
    /\ GameIdle

NextLookup ==
    \/ \E e \in Events \cup UnknownNames, pos \in PosChoices : Play(e, pos)
    \/ \E e \in Events \cup UnknownNames, pos \in PosChoices : PlayLoop(e, pos)
    \/ \E dt \in DtChoices : Update(dt)
    \/ \E e \in LookupNames : DoGetSpec(e) /\ Counted
    \/ \E e \in LookupNames : DoNextRecipeId(e) /\ Counted
    \/ \E id \in RecipeIds \cup UnknownNames : DoRecipesGet(id) /\ Counted

SpecLookup == InitLookup /\ [][NextLookup]_vars

-----------------------------------------------------------------------------
(* The recipe library on its own: a file is loaded, then recipes are looked up *)

InitRecipes ==
    /\ MixerIdle
    /\ catalog_source = <<>>
    /\ catalog = NoCatalog
    /\ cat_calls = <<>>
    /\ recipe_source \in RecipeSources
    /\ recipes = LoadRecipes(recipe_source)
    /\ result = NoResult
    /\ args = <<>>
    /\ out = <<>>
    /\ GameIdle

NextRecipes ==
    \E id \in RecipeIds \cup UnknownNames : DoRecipesGet(id) /\ UNCHANGED mixer_vars

SpecRecipes == InitRecipes /\ [][NextRecipes]_vars

\* the layers and the duration a payload states itself, once normalised
OwnLayers(payload) ==
    [i \in 1..Len(payload.layers[1]) |-> NormalizeLayer(payload.layers[1][i]).layer[1]]

\* C14: when B has "extends: A" and A is a valid recipe without a parent, the
\* file loads; B has A's layers in A's order if it states no layers and its own
\* layers if it states some, and A's duration unless it states its own.
C14_Inheritance ==
    LET a == recipe_source["A"]
        b == recipe_source["B"]
    IN  (b.extends = <<"A">> /\ a.extends = <<>> /\ ~NormalizeRecipe("A", a).raised) =>
            /\ recipes.status = "ok"
            /\ LET ga == RecipesGet(recipes, "A").spec[1]
                   gb == RecipesGet(recipes, "B").spec[1]
               IN  /\ b.layers = <<>> => gb.layers = ga.layers
                   /\ b.layers # <<>> => gb.layers = OwnLayers(b)
                   /\ b.duration_ms = <<>> => gb.duration_ms = ga.duration_ms
                   /\ b.duration_ms # <<>> => gb.duration_ms = b.duration_ms[1]

\* the "extends" references of the file form a cycle
ExtendsCycle(source) ==
    \/ source["A"].extends = <<"A">>
    \/ source["B"].extends = <<"B">>
    \/ source["A"].extends = <<"B">> /\ source["B"].extends = <<"A">>

\* C15: a file whose "extends" references form a cycle (A extends B and B
\* extends A, or a recipe extends itself) does not load and yields no library.
C15_CycleRejected ==
    ExtendsCycle(recipe_source) =>
        /\ recipes.status = "error"
        /\ recipes.recipes = <<>>

\* the invariants of a layer: an oscillator has a base frequency, sustain is in
\* [0,1], amplitude in (0,1], and no time, frequency or randomisation is negative
LayerInvariant(layer) ==
    /\ layer.layer_type = "osc" => layer.freq_hz # <<>>
    /\ layer.freq_hz # <<>> => layer.freq_hz[1] >= 0
    /\ 0 < layer.amp /\ layer.amp <= DefaultAmp
    /\ 0 <= layer.env.sustain /\ layer.env.sustain <= MaxSustain
    /\ layer.env.attack_ms >= 0
    /\ layer.randomize.start_ms >= 0

\* C17: every recipe of a library that loaded has a positive duration and a
\* non-empty layer list, and each of its layers keeps the layer invariants (a
\* file with a recipe that breaks one of them does not load).
C17_RecipeValidation ==
    recipes.status = "ok" =>
        \A id \in DOMAIN recipes.recipes :
            LET spec == RecipesGet(recipes, id).spec[1]
            IN  /\ spec.duration_ms > 0
                /\ spec.layers # <<>>
                /\ \A i \in 1..Len(spec.layers) : LayerInvariant(spec.layers[i])

-----------------------------------------------------------------------------
(* Properties of catalog validation *)

\* an entry the catalog must refuse: a bus outside the allowed set (whatever its
\* letter case), a base_gain outside 0..1, neither a recipe id nor a non-empty
\* variants list, or both a recipe and variants
BadEntry(raw) ==
    \/ Lower(RawGet(raw.bus, "sfx")) \notin AllowedBuses
    \/ RawGet(raw.base_gain, DefaultBaseGain) < 0
    \/ RawGet(raw.base_gain, DefaultBaseGain) > MaxBaseGain
    \/ raw.recipe = <<>> /\ ~VariantsTruthy(raw.variants)
    \/ raw.recipe # <<>> /\ raw.variants # <<>>

\* C16: a catalog file with an entry that must be refused does not load and
\* yields no catalog; every EventSpec of a catalog that loaded has a bus in the
\* allowed set and a non-empty list of recipe ids.
C16_CatalogValidation ==
    /\ (\E e \in DOMAIN catalog_source : BadEntry(catalog_source[e])) =>
            /\ catalog.status = "error"
            /\ catalog.specs = <<>>
    /\ catalog.status = "ok" =>
            \A e \in DOMAIN catalog.specs :
                /\ GetSpec(catalog, e).spec[1].bus \in AllowedBuses
                /\ GetSpec(catalog, e).spec[1].recipe_ids # <<>>

-----------------------------------------------------------------------------
(* The pan law on its own: _compute_volumes applied to a position and a width *)

MaxPanWidth == 6

PanInputs == [x : (-2)..(MaxPanWidth + 2), width : 0..MaxPanWidth]

DataIdleBut(a, o) ==
    /\ catalog_source = <<>>
    /\ catalog = NoCatalog
    /\ cat_calls = <<>>
    /\ recipe_source = <<>>
    /\ recipes = NoRecipes
    /\ result = NoResult
    /\ args = a
    /\ out = o

InitPan ==
    /\ MixerIdle
    /\ \E a \in PanInputs : DataIdleBut(a, <<>>)
    /\ GameIdle

\* _compute_volumes(spec, 1.0, (x, 0), (width, height)) for a spec with pan set
ApplyPan ==
    /\ out = <<>>
    /\ out' = <<PanGains(args.x, args.width)>>
    /\ UNCHANGED <<mixer_vars, catalog_source, catalog, cat_calls, recipe_source,
                   recipes, result, args, game_vars>>

NextPan == ApplyPan

SpecPan == InitPan /\ [][NextPan]_vars

\* C18: for a positive width and any x, left^2 + right^2 = 1 with both squares in
\* [0,1]; left = right at x = width/2; (left, right) = (1, 0) at x = 0 and at
\* every x left of it, and (0, 1) at x = width and at every x right of it.
C18_EqualPowerPan ==
    (out # <<>> /\ args.width > 0) =>
        LET g == out[1]
            x == args.x
            w == args.width
        IN  /\ g.den > 0
            /\ g.left_sq + g.right_sq = g.den
            /\ 0 <= g.left_sq /\ g.left_sq <= g.den
            /\ 0 <= g.right_sq /\ g.right_sq <= g.den
            /\ 2 * x = w => g.left_sq = g.right_sq
            /\ x <= 0 => g.left_sq = g.den /\ g.right_sq = 0
            /\ x >= w => g.left_sq = 0 /\ g.right_sq = g.den
            /\ (0 < x /\ x < w) => g.left_sq > 0 /\ g.right_sq > 0

\* a position left of the screen was clamped to the left edge
C18_ClampedLeft ==
    /\ args = [x |-> -2, width |-> 4]
    /\ out = <<[left_sq |-> 8, right_sq |-> 0, den |-> 8]>>

-----------------------------------------------------------------------------
(* The renderer on its own: render applied to layer buffers and an amp_scale *)

BufLen == 2
MaxSample == 2

\* two rendered layers, the second a quiet one, and the amp_scale argument
RenderInputs ==
    [first : [1..BufLen -> (-MaxSample)..MaxSample],
     second : [1..BufLen -> {-1, 0, 1}],
     amp_scale : {1, 2}]

InitRender ==
    /\ MixerIdle
    /\ \E a \in RenderInputs : DataIdleBut(a, <<>>)
    /\ GameIdle

\* renderer.render(recipe, amp_scale = ...)
ApplyRender ==
    /\ out = <<>>
    /\ out' = <<Render(<<args.first, args.second>>, BufLen, args.amp_scale)>>
    /\ UNCHANGED <<mixer_vars, catalog_source, catalog, cat_calls, recipe_source,
                   recipes, result, args, game_vars>>

NextRender == ApplyRender

SpecRender == InitRender /\ [][NextRender]_vars

\* C19: with amp_scale 1, when the summed layers are not all zero the buffer is
\* scaled, its largest magnitude is exactly the target and no sample exceeds it;
\* when they are all zero the buffer is returned as it is, all zero, and nothing
\* is divided by the zero peak; the two channels are identical.
C19_HeadroomNormalised ==
    (out # <<>> /\ args.amp_scale = 1) =>
        LET r == out[1]
            mix == [i \in 1..BufLen |-> args.first[i] + args.second[i]]
            silent == \A i \in 1..BufLen : mix[i] = 0
        IN  /\ r.left = r.right
            /\ Len(r.left) = BufLen
            /\ silent => ~r.scaled /\ \A i \in 1..BufLen : r.left[i] = 0
            /\ ~silent =>
                /\ r.scaled
                /\ r.peak > 0
                /\ \A i \in 1..BufLen : r.left[i] = mix[i] /\ Abs(r.left[i]) <= r.peak
                /\ \E i \in 1..BufLen : Abs(r.left[i]) = r.peak

\* two layers whose largest magnitude is a negative sample were scaled by it
C19_NegativePeakScaled ==
    /\ args = [first |-> <<-2, 1>>, second |-> <<-1, 0>>, amp_scale |-> 1]
    /\ out = <<[scaled |-> TRUE, peak |-> 3, left |-> <<-3, 1>>, right |-> <<-3, 1>>]>>

-----------------------------------------------------------------------------
(* Properties of the mixer without audio *)

\* no voice of the buses vs is on a channel
Channelless(vs) == \A b \in Buses : \A i \in 1..Len(vs[b]) : vs[b][i].channel = NoChannel

ManagerChannels == 2

\* the calls made on one manager in a run
MaxManagerCalls == 4

MgrChannels == 1..ManagerChannels

\* keys of sound_specs, in the order of the dict, and a key that is not in it
SoundSpecs == <<"explosion", "pickup_powerup", "player_attack">>

SoundKeys == SeqToSet(SoundSpecs) \cup {"player_fire"}

\* _prepare_sounds: creates the sounds in order; the first _create_sound that
\* raises RuntimeError disables the manager and clears what was created
PrepareSounds_keeps_bank(m, fail_at) ==
    IF fail_at = 0
    THEN [m EXCEPT !.sounds = SeqToSet(SoundSpecs)]
    ELSE [m EXCEPT !.enabled = FALSE,
                   !.sounds = {SoundSpecs[i] : i \in 1..(fail_at - 1)}]

PrepareSounds(m, fail_at) ==
    IF fail_at = 0
    THEN [m EXCEPT !.sounds = SeqToSet(SoundSpecs)]
    ELSE [m EXCEPT !.enabled = FALSE, !.sounds = {}, !.loop_channels = <<>>]

\* SoundManager(enable_audio) when pygame.mixer.init() raises pygame.error or
\* not, and when the fail_at-th _create_sound raises RuntimeError (0: none)
NewSoundManager(audio, init_raises, fail_at) ==
    LET m0 == [status |-> "ok", init_failed |-> audio /\ init_raises,
               enabled |-> audio /\ ~init_raises,
               sounds |-> {}, loop_channels |-> <<>>,
               busy |-> [c \in MgrChannels |-> "idle"],
               started |-> 0, stopped |-> 0, calls |-> 0]
    IN  IF m0.enabled THEN PrepareSounds(m0, fail_at) ELSE m0

\* Sound.play(loops): the mixer picks a free channel, or returns None
MgrFreeChannel(m) ==
    IF \E c \in MgrChannels : m.busy[c] = "idle"
    THEN CHOOSE c \in MgrChannels :
            m.busy[c] = "idle" /\ \A d \in MgrChannels : m.busy[d] = "idle" => c <= d
    ELSE NoChannel

SoundPlay(m, kind) ==
    LET c == MgrFreeChannel(m)
    IN  IF c = NoChannel THEN [m |-> m, channel |-> NoChannel]
        ELSE [m |-> [m EXCEPT !.busy[c] = kind, !.started = @ + 1], channel |-> c]

\* SoundManager.play(key)
MgrPlay(m, key) ==
    IF ~m.enabled THEN m
    ELSE IF key \notin m.sounds THEN m
    ELSE SoundPlay(m, "oneshot").m

\* SoundManager.play_loop(key)
MgrPlayLoop(m, key) ==
    IF ~m.enabled THEN m
    ELSE IF /\ key \in DOMAIN m.loop_channels
            /\ m.loop_channels[key] # NoChannel
            /\ m.busy[m.loop_channels[key]] # "idle"
         THEN m
    ELSE IF key \notin m.sounds THEN m
    ELSE LET r == SoundPlay(m, "loop")
         IN  [r.m EXCEPT !.loop_channels = DictSet(@, key, r.channel)]

\* channel.stop()
MgrChannelStop(m, c) == [m EXCEPT !.busy[c] = "idle", !.stopped = @ + 1]

\* SoundManager.stop_loop(key)
MgrStopLoop(m, key) ==
    IF ~m.enabled THEN m
    ELSE IF key \notin DOMAIN m.loop_channels THEN m
    ELSE LET c == m.loop_channels[key]
             popped == [m EXCEPT !.loop_channels = DictDel(@, {key})]
         IN  IF c = NoChannel THEN popped ELSE MgrChannelStop(popped, c)

RECURSIVE MgrStopChannels(_, _)
MgrStopChannels(m, cs) ==
    IF cs = {} THEN m
    ELSE LET c == CHOOSE x \in cs : TRUE
         IN  MgrStopChannels(IF c = NoChannel THEN m ELSE MgrChannelStop(m, c), cs \ {c})

\* SoundManager.stop_all()
MgrStopAll(m) ==
    IF ~m.enabled THEN m
    ELSE [MgrStopChannels(m, {m.loop_channels[k] : k \in DOMAIN m.loop_channels})
            EXCEPT !.loop_channels = <<>>]

MgrCalled(m) ==
    /\ manager.status = "ok"
    /\ manager.calls < MaxManagerCalls
    /\ manager' = [m EXCEPT !.calls = manager.calls + 1]
    /\ UNCHANGED <<mixer_vars, data_vars, player, twin>>

ManagerPlay(key) == MgrCalled(MgrPlay(manager, key))

ManagerPlayLoop(key) == MgrCalled(MgrPlayLoop(manager, key))

ManagerStopLoop(key) == MgrCalled(MgrStopLoop(manager, key))

ManagerStopAll == MgrCalled(MgrStopAll(manager))

\* a one-shot sound reaches its end and the mixer frees its channel
ManagerChannelDone(c) ==
    /\ manager.status = "ok"
    /\ manager.busy[c] = "oneshot"
    /\ manager' = [manager EXCEPT !.busy[c] = "idle"]
    /\ UNCHANGED <<mixer_vars, data_vars, player, twin>>

InitManager ==
    /\ MixerIdle
    /\ DataIdle
    /\ player = NoPlayer
    /\ twin = NoTwin
    /\ \E audio \in BOOLEAN, init_raises \in BOOLEAN, fail_at \in 0..Len(SoundSpecs) :
            manager = NewSoundManager(audio, init_raises, fail_at)

NextManager ==
    \/ \E key \in SoundKeys : ManagerPlay(key)
    \/ \E key \in SoundKeys : ManagerPlayLoop(key)
    \/ \E key \in SoundKeys : ManagerStopLoop(key)
    \/ ManagerStopAll
    \/ \E c \in MgrChannels : ManagerChannelDone(c)

SpecManager == InitManager /\ [][NextManager]_vars

\* C21: when the mixer cannot be initialised the manager is disabled with an
\* empty bank, and play, play_loop and stop_loop on any key leave every field
\* of the manager and every channel as they were, starting and stopping nothing;
\* and in every state a manager with sounds in its bank is enabled
C21_DisabledIsInert ==
    manager.status = "ok" =>
        /\ manager.init_failed =>
              /\ ~manager.enabled
              /\ manager.sounds = {}
              /\ \A key \in SoundKeys :
                    /\ MgrPlay(manager, key) = manager
                    /\ MgrPlayLoop(manager, key) = manager
                    /\ MgrStopLoop(manager, key) = manager
              /\ manager.started = 0
              /\ manager.stopped = 0
              /\ \A c \in MgrChannels : manager.busy[c] = "idle"
        /\ manager.sounds # {} => manager.enabled

\* calls were made on a manager whose mixer could not be initialised
C21_CalledAfterFailure ==
    /\ manager.status = "ok"
    /\ manager.init_failed
    /\ manager.calls >= 3


(***************************************************************************)
(* The player (entities_player.py).  Positions are in pixels, velocities   *)
(* in pixels per second and dt in milliseconds; a float is <<v>> for the   *)
(* number v, rounded down to a whole unit, or <<>> for NaN, which is what  *)
(* arithmetic on an infinite or NaN target produces.                       *)
(***************************************************************************)

WIDTH == 1920

HEIGHT == 1080

ACCELERATION == 600

MIN_THRUST == 10

\* FRICTION = 0.97, in hundredths
FrictionPct == 97

PlayerRadius == 12

\* max_tail = 50 * tail_multiplier, with tail_multiplier = 1
MaxTail == 50

\* the update calls made on one player in a run
MaxPlayerUpdates == 2

NaN == <<>>

FAdd(a, b) == IF a = NaN \/ b = NaN THEN NaN ELSE <<a[1] + b[1]>>

FSub(a, b) == IF a = NaN \/ b = NaN THEN NaN ELSE <<a[1] - b[1]>>

\* a * num / den
FScale(a, num, den) == IF a = NaN THEN NaN ELSE <<(a[1] * num) \div den>>

\* a < b, which is false when either side is NaN
FLt(a, b) == a # NaN /\ b # NaN /\ a[1] < b[1]

\* a != b, which is true when either side is NaN
FNe(a, b) == a = NaN \/ b = NaN \/ a[1] # b[1]

\* the builtins min(a, b) and max(a, b): the first argument unless the second
\* compares below (above) it
PyMin(a, b) == IF FLt(b, a) THEN b ELSE a

PyMax(a, b) == IF FLt(a, b) THEN b ELSE a

RECURSIVE ISqrtIn(_, _, _)
ISqrtIn(n, lo, hi) ==
    IF lo >= hi THEN lo
    ELSE LET mid == (lo + hi + 1) \div 2
         IN  IF mid * mid <= n THEN ISqrtIn(n, mid, hi) ELSE ISqrtIn(n, lo, mid - 1)

\* np.linalg.norm(direction)
Norm(d) ==
    IF d[1] = NaN \/ d[2] = NaN THEN NaN
    ELSE <<ISqrtIn(d[1][1] * d[1][1] + d[2][1] * d[2][1], 0, 2 * (WIDTH + HEIGHT))>>

\* direction / dist * ACCELERATION * min(dist / MIN_THRUST, 1) if dist > 0, else 0
Thrust(d, dist) ==
    IF ~FLt(<<0>>, dist) THEN <<0>>
    ELSE IF d = NaN THEN NaN
    ELSE IF dist[1] < MIN_THRUST THEN <<(d[1] * ACCELERATION) \div MIN_THRUST>>
    ELSE <<(d[1] * ACCELERATION) \div dist[1]>>

\* one axis of the clamp: [pos, vel, clamped]
ClampAxis_keeps_velocity(pos, vel, lo, hi) ==
    LET clamped == PyMax(<<lo>>, PyMin(pos, <<hi>>))
    IN  IF FNe(clamped, pos)
        THEN [pos |-> clamped, vel |-> vel, clamped |-> TRUE]
        ELSE [pos |-> pos, vel |-> vel, clamped |-> FALSE]

ClampAxis(pos, vel, lo, hi) ==
    LET clamped == PyMax(<<lo>>, PyMin(pos, <<hi>>))
    IN  IF FNe(clamped, pos)
        THEN [pos |-> clamped, vel |-> <<0>>, clamped |-> TRUE]
        ELSE [pos |-> pos, vel |-> vel, clamped |-> FALSE]

\* Player() with pos and vel then set by the caller
NewPlayer(pos, vel) ==
    [status |-> "ok", pos |-> pos, vel |-> vel, radius |-> PlayerRadius,
     trail |-> <<>>, tail_multiplier |-> 1, clamped |-> <<FALSE, FALSE>>, updates |-> 0]

\* Player.update(dt, target)
PlayerUpdate(p, dt, target) ==
    LET direction == [i \in 1..2 |-> FSub(target[i], p.pos[i])]
        dist == Norm(direction)
        acc == [i \in 1..2 |-> Thrust(direction[i], dist)]
        vel == [i \in 1..2 |->
                   FScale(FAdd(p.vel[i], FScale(acc[i], dt, 1000)), FrictionPct, 100)]
        pos == [i \in 1..2 |-> FAdd(p.pos[i], FScale(vel[i], dt, 1000))]
        x == ClampAxis(pos[1], vel[1], p.radius, WIDTH - p.radius)
        y == ClampAxis(pos[2], vel[2], p.radius, HEIGHT - p.radius)
        trail == Append(p.trail, <<x.pos, y.pos>>)
    IN  [p EXCEPT !.pos = <<x.pos, y.pos>>,
                  !.vel = <<x.vel, y.vel>>,
                  !.clamped = <<x.clamped, y.clamped>>,
                  !.trail = IF Len(trail) > MaxTail * p.tail_multiplier
                            THEN Tail(trail) ELSE trail,
                  !.updates = @ + 1]

\* positions on, inside and outside the edges of the screen, and NaN
PlayerXs == {<<PlayerRadius>>, <<WIDTH - PlayerRadius - 1>>, <<WIDTH + 80>>, NaN}

PlayerYs == {<<HEIGHT \div 2>>, <<HEIGHT - PlayerRadius>>, <<-40>>}

PlayerVels == {<<0>>, <<200>>, <<-3000>>, NaN}

\* targets on the player's start, far outside the screen, and not a number
PlayerTargets ==
    {<<<<WIDTH - PlayerRadius - 1>>, <<HEIGHT \div 2>>>>, <<<<2 * WIDTH>>, <<HEIGHT \div 2>>>>,
     <<<<-WIDTH>>, <<-HEIGHT>>>>, <<NaN, <<0>>>>}

\* dt in ms: a frame, the half second of the test, none, and a negative step
PlayerDts == {16, 500, 0, -500}

DoPlayerUpdate(dt, target) ==
    /\ player.status = "ok"
    /\ player.updates < MaxPlayerUpdates
    /\ player' = PlayerUpdate(player, dt, target)
    /\ UNCHANGED <<mixer_vars, data_vars, manager, twin>>

InitPlayer ==
    /\ MixerIdle
    /\ DataIdle
    /\ manager = NoManager
    /\ twin = NoTwin
    /\ \E x \in PlayerXs, y \in PlayerYs, vx \in PlayerVels, vy \in {<<0>>, <<200>>} :
            player = NewPlayer(<<x, y>>, <<vx, vy>>)

NextPlayer == \E dt \in PlayerDts, target \in PlayerTargets : DoPlayerUpdate(dt, target)

SpecPlayer == InitPlayer /\ [][NextPlayer]_vars

\* the position is a number inside [lo, hi]
Within(a, lo, hi) == a # NaN /\ lo <= a[1] /\ a[1] <= hi

\* C22: after every update the player is inside the screen by its radius on
\* both axes, and the velocity along each axis clamped in that update is 0
C22_ClampedToScreen ==
    (player.status = "ok" /\ player.updates > 0) =>
        /\ Within(player.pos[1], player.radius, WIDTH - player.radius)
        /\ Within(player.pos[2], player.radius, HEIGHT - player.radius)
        /\ \A i \in 1..2 : player.clamped[i] => player.vel[i] = <<0>>

\* an update moved the player past the right edge and clamped it there
C22_ClampedAtRightEdge ==
    /\ player.status = "ok"
    /\ player.updates > 0
    /\ player.clamped[1]
    /\ ~player.clamped[2]
    /\ player.pos[1] = <<WIDTH - PlayerRadius>>


(***************************************************************************)
(* The mixer again: the loop index, the life of a voice, the channels.     *)
(***************************************************************************)

\* the places <<bus, index>> of the bus lists
Places == UNION {{<<b, i>> : i \in 1..Len(voices[b])} : b \in Buses}

VoiceAt(pl) == voices[pl[1]][pl[2]]

\* C23: every entry of the loop index for an event is a loop voice of that
\* event that is at exactly one place of the bus lists, in the list of its own
\* bus; every loop voice in a bus list is the loop-index entry of its event;
\* and no event has two loop voices
C23_LoopIndexConsistent ==
    /\ \A e \in DOMAIN loops :
          /\ Cardinality({pl \in Places : VoiceAt(pl).id = loops[e]}) = 1
          /\ \A pl \in Places :
                VoiceAt(pl).id = loops[e] =>
                    /\ VoiceAt(pl).loop
                    /\ VoiceAt(pl).event = e
                    /\ VoiceAt(pl).bus = pl[1]
    /\ \A pl \in Places :
          VoiceAt(pl).loop =>
              /\ VoiceAt(pl).event \in DOMAIN loops
              /\ loops[VoiceAt(pl).event] = VoiceAt(pl).id
    /\ \A e \in Events :
          Cardinality({pl \in Places : VoiceAt(pl).loop /\ VoiceAt(pl).event = e}) <= 1

\* the loop of "low" was stolen by the loop of "burst" on the full sfx bus
C23_LoopStolen ==
    /\ last.op = "play_loop"
    /\ last.arg = "burst"
    /\ last.ret
    /\ spec_loop["low"]
    /\ "low" \notin DOMAIN loops
    /\ "burst" \in DOMAIN loops
    /\ Len(voices["sfx"]) = SfxCap

\* the voices in the bus lists vs, and their ids
VoiceSet(vs) == UNION {SeqToSet(vs[b]) : b \in Buses}

VoiceIds(vs) == {v.id : v \in VoiceSet(vs)}

\* the step from the current state to the next one takes the voice v out of
\* its bus in one of the three ways a voice may go
LeavesProperly(v) ==
    \/ last'.op = "update" /\ ~v.loop
    \/ last'.op = "stop_loop" /\ last'.arg = v.event /\ last'.ret /\ v.loop
    \/ /\ last'.op \in {"play", "play_loop"}
       /\ last'.ret
       /\ EventBus(last'.arg) = v.bus
       /\ Len(voices[v.bus]) = BusCap(v.bus)
       /\ n_created' = n_created + 1
       /\ \E w \in SeqToSet(voices'[v.bus]) : w.id = n_created' /\ w.event = last'.arg

LifecycleStep ==
    /\ \A v \in VoiceSet(voices) : v.id \notin VoiceIds(voices') => LeavesProperly(v)
    /\ VoiceIds(voices') \ VoiceIds(voices) \subseteq {n_created + 1}

\* C24: a voice leaves its bus only when an update completes it as a non-loop
\* voice, when stop_loop of its event stops it as a loop voice, or when a
\* request admitted on its full bus evicts it; so update removes no loop voice,
\* stop_loop no non-loop voice and duck no voice; and a voice that has left
\* is in no bus ever after
C24_VoiceLifecycle == [][LifecycleStep]_vars

\* an update has completed the only voice ever created, a one-shot
C24_OneShotCompleted ==
    /\ last.op = "update"
    /\ n_created = 1
    /\ n_calls = 1
    /\ \A e \in Events : ~spec_loop[e] \/ EventLoopAtLoad(e)
    /\ VoiceSet(voices) = {}
    /\ loops = <<>>

(* Runs without end: update keeps being called, and a sound that does not loop *)
(* comes to its end.                                                          *)

InitLive ==
    /\ enable_audio \in BOOLEAN
    /\ budget = "live"
    /\ MixerConstructed
    /\ DataIdle
    /\ GameIdle

SpecLive ==
    /\ InitLive
    /\ [][Next]_vars
    /\ WF_vars(\E dt \in DtChoices : Update(dt))
    /\ WF_vars(\E c \in Channels : ChannelFinish(c))

\* the voice with this id is in a bus list
Present(id) == id \in VoiceIds(voices)

OneShotPresent(id) == \E v \in VoiceSet(voices) : v.id = id /\ ~v.loop

\* the channel of the voice with this id, if it is in a bus and has one, is not busy
ChannelQuiet(id) ==
    \A v \in VoiceSet(voices) :
        (v.id = id /\ v.channel # NoChannel /\ enable_audio) => ~IsBusy(channels, v.channel)

-----------------------------------------------------------------------------
(* The catalog entries under the mixer's operations *)

\* C26: no operation of the mixer changes a field of a catalog entry: every
\* entry has the loop flag it was loaded with, also after play_loop on an event
\* loaded with loop = false, and play of such an event is the one-shot play
\* with its cooldown, never the loop path
C26_CatalogUntouched ==
    /\ \A e \in Events : spec_loop[e] = EventLoopAtLoad(e)
    /\ \A e \in Events, pos \in PosChoices :
          ~EventLoopAtLoad(e) => PlayResult(Cur, e, pos) = PlayResult_no_redirect(Cur, e, pos)

-----------------------------------------------------------------------------
(* Ducking and the loops that are playing *)

\* the gain in dB that _compute_volumes gives a voice of event e on bus b under
\* the bus's duck gain of the current state
DuckedDb(e, b) == BusBaseGainDb(b) + EventBaseGain(e) + duck_gain[b]

\* C27: after every update the gain of each loop voice playing on a bus is its
\* un-ducked gain lowered by the bus's effective duck gain of that moment: the
\* gain of the lowest window while windows are active, nothing once the last
\* window has expired, with no play_loop call in between
C27_LoopsFollowDuck ==
    last.op = "update" =>
        \A pl \in Places :
            VoiceAt(pl).loop => VoiceAt(pl).vol.db = DuckedDb(VoiceAt(pl).event, pl[1])

-----------------------------------------------------------------------------
(* Two mixers given the same calls.  The callers pause at different points   *)
(* of the call sequence: the clocks read different times at the calls, and   *)
(* the sounds reach their end between different calls.                       *)

\* the greatest time the second mixer's clock reads
MaxTwinClock == 2

TwinCur == twin.m

\* start_time = time.time() of the voice just created, on the second mixer's clock
Stamp(m, id, t) ==
    [m EXCEPT !.voices =
        [b \in Buses |->
            [i \in 1..Len(@[b]) |->
                IF @[b][i].id = id THEN [@[b][i] EXCEPT !.start_time = t] ELSE @[b][i]]]]

\* what a caller can see of a voice: everything but the time it was created at
\* and the channel it plays on
SeenVoice(v) ==
    [id |-> v.id, event |-> v.event, bus |-> v.bus, priority |-> v.priority,
     loop |-> v.loop, vol |-> v.vol, virtual_time |-> v.virtual_time]

\* the bus voice lists, the loop index, the cooldowns and the duck gains
Seen(m) ==
    [voices |-> [b \in Buses |-> [i \in 1..Len(m.voices[b]) |-> SeenVoice(m.voices[b][i])]],
     loops |-> m.loops, cooldowns |-> m.cooldowns, duck_gain |-> m.duck_gain]

\* a play or play_loop call made on both mixers, with the results r and rt
TwinCalled(r, rt) ==
    /\ twin.status = "ok"
    /\ MayRequest
    /\ Apply(r.m)
    /\ twin' = [twin EXCEPT !.m = Stamp(rt.m, n_created + 1, twin.clock), !.ret = rt.ret]
    /\ n_created' = IF r.created \/ rt.created THEN n_created + 1 ELSE n_created
    /\ n_calls' = n_calls + 1
    /\ UNCHANGED <<enable_audio, n_updates, budget, duck_log, data_vars, manager, player>>

TwinPlay(e, pos) ==
    \E r \in {PlayResult(Cur, e, pos)}, rt \in {PlayResult(TwinCur, e, pos)} :
        /\ TwinCalled(r, rt)
        /\ grant_age' = IF r.granted /\ EventCooldownMs(e) > 0
                        THEN DictSet(grant_age, e, 0) ELSE grant_age
        /\ last' = [op |-> "play", arg |-> e, ret |-> r.ret, raised |-> r.raised]

TwinPlayLoop(e, pos) ==
    \E r \in {PlayLoopResult(Cur, e, pos)}, rt \in {PlayLoopResult(TwinCur, e, pos)} :
        /\ TwinCalled(r, rt)
        /\ UNCHANGED grant_age
        /\ last' = [op |-> "play_loop", arg |-> e, ret |-> r.ret, raised |-> r.raised]

TwinStopLoop(e) ==
    \E r \in {StopLoopResult(Cur, e)}, rt \in {StopLoopResult(TwinCur, e)} :
        /\ twin.status = "ok"
        /\ MayRequest
        /\ Apply(r.m)
        /\ twin' = [twin EXCEPT !.m = rt.m, !.ret = rt.ret]
        /\ n_calls' = n_calls + 1
        /\ last' = [op |-> "stop_loop", arg |-> e, ret |-> r.ret, raised |-> FALSE]
        /\ UNCHANGED <<enable_audio, n_created, n_updates, budget, grant_age, duck_log,
                       data_vars, manager, player>>

TwinDuck(bus, gain_db, ms) ==
    /\ twin.status = "ok"
    /\ MayRequest
    /\ \E m \in {DuckResult(Cur, bus, gain_db, ms)} : Apply(m)
    /\ twin' = [twin EXCEPT !.m = DuckResult(TwinCur, bus, gain_db, ms), !.ret = FALSE]
    /\ n_calls' = n_calls + 1
    /\ duck_log' = IF Lower(bus) \in Buses
                   THEN [duck_log EXCEPT ![Lower(bus)] =
                            Append(@, [gain_db |-> gain_db, ms |-> ms, elapsed |-> 0])]
                   ELSE duck_log
    /\ last' = [op |-> "duck", arg |-> bus, ret |-> FALSE, raised |-> FALSE]
    /\ UNCHANGED <<enable_audio, n_created, n_updates, budget, grant_age, data_vars,
                   manager, player>>

TwinUpdate(dt) ==
    /\ twin.status = "ok"
    /\ MayUpdate
    /\ n_updates' = n_updates + 1
    /\ \E m \in {UpdateResult(Cur, dt)} : Apply(m)
    /\ twin' = [twin EXCEPT !.m = UpdateResult(TwinCur, dt), !.ret = FALSE]
    /\ grant_age' = [e \in {x \in DOMAIN grant_age : grant_age[x] + dt < EventCooldownMs(x)}
                        |-> grant_age[e] + dt]
    /\ duck_log' = [b \in Buses |->
                       SelectSeq([i \in 1..Len(duck_log[b]) |->
                                     [duck_log[b][i] EXCEPT !.elapsed = @ + dt]], LogAlive)]
    /\ last' = [op |-> "update", arg |-> "", ret |-> FALSE, raised |-> FALSE]
    /\ UNCHANGED <<enable_audio, n_created, n_calls, budget, data_vars, manager, player>>

\* the channels after a pause long enough for every one-shot sound to end
AllEnded(ch) == [c \in Channels |-> IF ch[c] = "oneshot" THEN "idle" ELSE ch[c]]

\* the caller of the first mixer pauses between two calls: the one-shot sounds
\* playing there reach their end
FirstPause ==
    /\ twin.status = "ok"
    /\ enable_audio
    /\ \E c \in Channels : channels[c] = "oneshot"
    /\ channels' = AllEnded(channels)
    /\ UNCHANGED <<enable_audio, voices, loops, cooldowns, variant_indices, ducking,
                   duck_gain, spec_loop, n_created, n_calls, n_updates, budget, last,
                   grant_age, duck_log, data_vars, game_vars>>

\* the caller of the second mixer pauses between two calls: its clock moves on
\* and the one-shot sounds playing there reach their end
TwinPause ==
    /\ twin.status = "ok"
    /\ twin.clock < MaxTwinClock
    /\ twin' = [twin EXCEPT !.clock = @ + 1,
                            !.m.channels = IF enable_audio THEN AllEnded(@) ELSE @]
    /\ UNCHANGED <<mixer_vars, data_vars, manager, player>>

InitTwin ==
    /\ enable_audio \in BOOLEAN
    /\ budget = "wide"
    /\ MixerConstructed
    /\ DataIdle
    /\ manager = NoManager
    /\ player = NoPlayer
    /\ twin = [status |-> "ok", m |-> Cur, ret |-> FALSE, clock |-> 0]

NextTwin ==
    \/ \E e \in Events, pos \in PosChoices : TwinPlay(e, pos)
    \/ \E e \in Events, pos \in PosChoices : TwinPlayLoop(e, pos)
    \/ \E e \in Events : TwinStopLoop(e)
    \/ \E d \in DuckChoices : TwinDuck(d[1], d[2], d[3])
    \/ \E dt \in DtChoices : TwinUpdate(dt)
    \/ FirstPause
    \/ TwinPause

SpecTwin == InitTwin /\ [][NextTwin]_vars

\* C28, as stated: two mixers given the same calls return the same booleans and
\* have the same bus voice lists, loop index, cooldowns and duck gains, whatever
\* time passes between the calls
C28_TwinsAgree ==
    twin.status = "ok" => (twin.ret = last.ret /\ Seen(TwinCur) = Seen(Cur))

\* C28, amended: with audio disabled, two mixers given the same calls return the
\* same booleans and have the same bus voice lists, loop index, cooldowns and
\* duck gains, whatever times their clocks read at the calls
C28_TwinsAgreeWithoutAudio ==
    (twin.status = "ok" /\ ~enable_audio) => (twin.ret = last.ret /\ Seen(TwinCur) = Seen(Cur))

\* without audio, a voice was evicted on both mixers from among two voices of
\* equal priority that the first mixer created at the same time and the second
\* mixer at different times
C28_SameVictimOtherTimes ==
    /\ twin.status = "ok"
    /\ ~enable_audio
    /\ last.op = "play"
    /\ last.ret
    /\ n_created = SfxCap + 1
    /\ Len(voices["sfx"]) = SfxCap
    /\ voices["sfx"][1].start_time = 0
    /\ voices["sfx"][1].priority = voices["sfx"][2].priority
    /\ twin.m.voices["sfx"][1].start_time > 0
    /\ twin.m.voices["sfx"][1].id = voices["sfx"][1].id

-----------------------------------------------------------------------------
(* The channels the mixer keeps busy *)

\* the channels on which a sound started by the mixer is playing
BusyChannels == {c \in Channels : IsBusy(channels, c)}

\* C29: with audio enabled, every channel on which a sound started by the mixer
\* is playing is the channel of a voice in a bus list, also after a refused play
\* and after a play_loop that refreshed a loop; so the busy channels are never
\* more than the live voices
C29_ChannelsOwned ==
    enable_audio =>
        /\ \A c \in BusyChannels : \E v \in VoiceSet(voices) : v.channel = c
        /\ Cardinality(BusyChannels) <= Cardinality(VoiceIds(voices))

-----------------------------------------------------------------------------
(* The placement of a layer (renderer.py:68-97): the buffer of a layer, as   *)
(* generated, enveloped and filtered, is moved by the start offset drawn    *)
(* for it.                                                                  *)

\* total_samples of the buffers placed
LayerLen == 3

\* the layer buffers: samples that are never 0, so that silence shows
LayerBuffers == [1..LayerLen -> (1..MaxSample) \cup {-1}]

\* the offsets: up to one more than the length, in both directions
LayerOffsets == (-(LayerLen + 1))..(LayerLen + 1)

\* a placement that turns the buffer around its ends, as np.roll does
PlaceLayer_wraps(waveform, start_offset) ==
    LET total_samples == Len(waveform)
    IN  [i \in 1..total_samples |->
            waveform[((i - 1 - start_offset) % total_samples) + 1]]

\* _render_layer from `if start_offset == 0` on: the indices of the code count
\* from 0, those of the sequences from 1
PlaceLayer(waveform, start_offset) ==
    LET total_samples == Len(waveform)
        dest_start == Min(total_samples, start_offset)
        src_start == Min(total_samples, -start_offset)
    IN  IF start_offset = 0 THEN waveform
        ELSE IF start_offset > 0
        THEN LET length == total_samples - dest_start
             IN  [i \in 1..total_samples |->
                    IF length > 0 /\ dest_start <= i - 1 /\ i - 1 < dest_start + length
                    THEN waveform[(i - 1 - dest_start) + 1] ELSE 0]
        ELSE LET length == total_samples - src_start
             IN  [i \in 1..total_samples |->
                    IF length > 0 /\ i - 1 < length
                    THEN waveform[(src_start + i - 1) + 1] ELSE 0]

InitLayer ==
    /\ MixerIdle
    /\ GameIdle
    /\ \E w \in LayerBuffers, k \in LayerOffsets :
            DataIdleBut([waveform |-> w, start_offset |-> k], <<>>)

\* renderer._render_layer(layer, total_samples, rng, global_pitch), the placement
ApplyLayer ==
    /\ out = <<>>
    /\ out' = <<PlaceLayer(args.waveform, args.start_offset)>>
    /\ UNCHANGED <<mixer_vars, catalog_source, catalog, cat_calls, recipe_source,
                   recipes, result, args, game_vars>>

NextLayer == ApplyLayer

SpecLayer == InitLayer /\ [][NextLayer]_vars

\* C30: the placed buffer has the length n of the layer buffer, and its sample
\* i (counted from 0) is sample i - k of the layer buffer when 0 <= i - k < n and
\* 0 otherwise; so nothing moved past one end comes back at the other, and an
\* offset of n or more in either direction leaves silence
C30_PlacementClips ==
    out # <<>> =>
        LET n == Len(args.waveform)
            k == args.start_offset
            placed == out[1]
        IN  /\ Len(placed) = n
            /\ \A i \in 0..(n - 1) :
                  placed[i + 1] = IF 0 <= i - k /\ i - k < n THEN args.waveform[i - k + 1] ELSE 0
            /\ (k >= n \/ -k >= n) => \A i \in 1..n : placed[i] = 0

\* a layer moved back by one sample: its first sample is gone and the last
\* place is silent
C30_MovedBackByOne ==
    /\ out # <<>>
    /\ args.start_offset = -1
    /\ out[1][LayerLen] = 0
    /\ out[1][1] = args.waveform[2]
    /\ args.waveform[1] # args.waveform[2]

====
